---- MODULE Spec2Model ----
(***************************************************************************)
(* Model of the GitHub backend API client of netlify-cms                   *)
(* (packages/netlify-cms-backend-github/src/API.js).                       *)
(*                                                                         *)
(* The remote repository is the environment: refs, commits and trees live  *)
(* on the server and every request of the client is one atomic step that   *)
(* either takes effect or is rejected.  Git objects are content-addressed, *)
(* so a tree is named by its listing, a blob by its content and a commit   *)
(* of the repository by its message, tree and parents; the commits of the  *)
(* metadata ref are named by their position in a commit store.             *)
(*                                                                         *)
(* SpecMeta      the metadata store: storeMetadata and its semaphore       *)
(* SpecWorkflow  the editorial workflow operations on workflow branches    *)
(* SpecCache     storeMetadata and retrieveMetadata with the cache         *)
(* SpecReview    the listing of the unpublished branches, pull requests    *)
(* SpecPublished persisting and deleting files on the base branch          *)
(* SpecPull      the rebase of the pull request of an entry                *)
(* SpecDraft     the reducer of the entry draft under dispatched actions   *)
(* SpecHead, SpecRebase, SpecKey, SpecTree: one call of a function on      *)
(*               bounded arguments                                         *)
(***************************************************************************)
EXTENDS FiniteSets, Integers, Sequences, TLC

VARIABLES
    \* ---- metadata store (SpecMeta) ----
    metaRef,        \* sha of refs/meta/_netlify_cms on the remote, NoSha if the ref is absent
    metaCommits,    \* the remote commit store: sha i names metaCommits[i]
    semCurrent,     \* this._metadataSemaphore.current
    semQueue,       \* this._metadataSemaphore.queue (tasks waiting for the slot)
    pc,             \* position of each storeMetadata call
    args,           \* [key, data] of each storeMetadata call
    loc,            \* locals of each call: branchData.sha, changeTree, commit sha
    metaCache,      \* localForage entries gh.meta.<key>
    takeOrder,      \* history: calls in the order they called semaphore.take
    enterOrder,     \* history: calls in the order their task was started
    patchOrder,     \* history: calls in the order their patchRef succeeded
    metaTree0,      \* history: the metadata tree before the first call
    now,            \* Date.now(), in milliseconds since the client started
    \* ---- editorial workflow (SpecWorkflow) ----
    useOpenAuthoring, \* config.useOpenAuthoring
    heads,          \* remote refs/heads: branch name -> commit, NoCommit if absent
    pulls,          \* the pull requests of the origin repository, by number
    metaFiles,      \* <key>.json files in the tree of refs/meta/_netlify_cms
    semTaken,       \* the metadata semaphore's slot is taken
    sent,           \* history: the (branch, force) of every heads patch sent
    last,           \* history: the operation called last and its outcome
    opCount,        \* number of operations called so far
    \* ---- one call of a function (SpecHead) ----
    callArgs,       \* the arguments of the call
    callResult,     \* what the call returned or threw, NotCalled before it
    \* ---- the entry draft of the editor (SpecDraft) ----
    entryDraft,     \* the state of entryDraftReducer
    inFlight,       \* history: persist requests dispatched and not yet answered
    lastAction      \* history: the type of the persist or delete action
                    \* dispatched last, "OTHER" after any other action

metaVars == <<metaRef, metaCommits, semCurrent, semQueue, pc, args, loc,
              metaCache, takeOrder, enterOrder, patchOrder, metaTree0, now>>

wfVars == <<useOpenAuthoring, heads, pulls, metaFiles, semTaken,
            sent, last, opCount>>

fnVars == <<callArgs, callResult>>

draftVars == <<entryDraft, inFlight, lastAction>>

vars == <<metaVars, wfVars, fnVars, draftVars>>

-----------------------------------------------------------------------------
(* Bounds *)

MaxCalls == 3       \* storeMetadata calls issued on the one client instance
MaxData == 2        \* distinct metadata payloads (A, B)

Calls == 1..MaxCalls
Data == 1..MaxData
MetaKeys == {"k1", "k2"}

MaxOps == 2         \* workflow operations called on the client instance
MaxList == 2        \* length of the commit list handed to assertHead
MaxName == 2        \* length of a collection name or slug

-----------------------------------------------------------------------------
(* Git objects *)

NoSha == 0
NullSha == [null |-> TRUE]
BlobSha(b) == [blob |-> b]
TreeSha(t) == [tree |-> t]
EmptyTree == << >>

ReadmeBlob == 0

\* getTree (API.js 1033-1038): the listing of a tree; {tree: []} for a null sha
getTree(sha) == IF sha = NullSha THEN EmptyTree ELSE sha.tree

\* A createTree that forgets base_tree: only the listed entries survive.
createTree_NoBase(baseTree, updates) ==
    [p \in {q \in DOMAIN updates : updates[q].sha # NullSha} |-> updates[p]]

\* createTree (API.js 1127-1132): POST git/trees with base_tree; the remote
\* overlays the given entries on the base tree, an entry with sha null
\* deletes its path.
createTree(baseTree, updates) ==
    LET kept == {p \in DOMAIN baseTree :
                    ~(p \in DOMAIN updates /\ updates[p].sha = NullSha)}
        added == {p \in DOMAIN updates : updates[p].sha # NullSha}
    IN [p \in kept \cup added |->
            IF p \in added THEN updates[p] ELSE baseTree[p]]

\* an updateTree that does not look at remove
RECURSIVE updateTree_KeepRemoved(_, _)
updateTree_KeepRemoved(tree, fileTree) ==
    LET existing(p) ==
            IF fileTree[p].file
            THEN [mode |-> tree[p].mode, type |-> tree[p].type,
                  sha |-> fileTree[p].sha]
            ELSE [mode |-> "040000", type |-> "tree",
                  sha |-> TreeSha(updateTree_KeepRemoved(getTree(tree[p].sha), fileTree[p].dir))]
        fresh(p) ==
            IF fileTree[p].file
            THEN [mode |-> "100644", type |-> "blob", sha |-> fileTree[p].sha]
            ELSE [mode |-> "040000", type |-> "tree",
                  sha |-> TreeSha(updateTree_KeepRemoved(getTree(NullSha), fileTree[p].dir))]
        updates == [p \in DOMAIN fileTree |->
                        IF p \in DOMAIN tree THEN existing(p) ELSE fresh(p)]
    IN createTree(tree, updates)

\* updateTree (API.js 1080-1125), on the listing of the base tree.  A fileTree
\* maps a path segment to a file leaf [file, sha, remove] or to a directory
\* [file |-> FALSE, dir |-> fileTree].
RECURSIVE updateTree(_, _)
updateTree(tree, fileTree) ==
    LET existing(p) ==
            IF fileTree[p].file
            THEN [mode |-> tree[p].mode, type |-> tree[p].type,
                  sha |-> IF fileTree[p].remove THEN NullSha ELSE fileTree[p].sha]
            ELSE [mode |-> "040000", type |-> "tree",
                  sha |-> TreeSha(updateTree(getTree(tree[p].sha), fileTree[p].dir))]
        fresh(p) ==
            IF fileTree[p].file
            THEN [mode |-> "100644", type |-> "blob", sha |-> fileTree[p].sha]
            ELSE [mode |-> "040000", type |-> "tree",
                  sha |-> TreeSha(updateTree(getTree(NullSha), fileTree[p].dir))]
        updates == [p \in DOMAIN fileTree |->
                        IF p \in DOMAIN tree THEN existing(p) ELSE fresh(p)]
    IN createTree(tree, updates)

File(sha) == [file |-> TRUE, sha |-> sha, remove |-> FALSE]

-----------------------------------------------------------------------------
(* Metadata store: storeMetadata, checkMetadataRef, the semaphore *)

NoData == 0
NoOp == [op |-> "none", slug |-> << >>, arg |-> "none", again |-> FALSE,
         listed |-> {}, out |-> "none"]
NotCalled == [called |-> FALSE]

\* the entry draft where the editor is not modelled
DraftPinned ==
    /\ entryDraft = << >>
    /\ inFlight = 0
    /\ lastAction = "@@INIT"
NoEntry == [none |-> TRUE]
NoLoc == [branchData |-> NoSha, changeTree |-> EmptyTree, parentSha |-> NoSha, sha |-> NoSha]

MetaFile(key) == key \o ".json"

ReadmeTree ==
    ("README.md" :> [mode |-> "100644", type |-> "blob", sha |-> BlobSha(ReadmeBlob)])

\* a metadata tree that already holds k1.json
SeededTree ==
    [p \in {"README.md", "k1.json"} |->
        [mode |-> "100644", type |-> "blob",
         sha |-> IF p = "README.md" THEN BlobSha(ReadmeBlob) ELSE BlobSha(1)]]

MetaCommit(message, tree, parents) ==
    [message |-> message, tree |-> tree, parents |-> parents]

\* the listing of the tree of the commit a sha names
CommitTree(sha) == metaCommits[sha].tree

\* sha a is sha b or an ancestor of it (every commit has at most one parent here)
RECURSIVE IsAncestor(_, _)
IsAncestor(a, b) ==
    IF a = b THEN TRUE
    ELSE IF b = NoSha \/ metaCommits[b].parents = << >> THEN FALSE
    ELSE IsAncestor(a, metaCommits[b].parents[1])

\* the time an entry of the cache is served: expires is Date.now() + 300000
\* (API.js 211)
TTL == 300000

\* the step of the clock: half the time an entry is served
ClockStep == 150000

\* the clock is followed until an entry written at the start has expired
Horizon == TTL

\* a test that takes every entry of the cache for one to serve
cacheFresh_Always(cached, t) == cached # NoEntry

\* cached && cached.expires > Date.now() (API.js 226)
cacheFresh(cached, t) == cached # NoEntry /\ cached.expires > t

\* retrieveMetadata (API.js 223-262) outside open authoring: the entry of the
\* cache is returned while it is fresh; else <key>.json is requested at
\* refs/meta/_netlify_cms and parsed.  requested: a request was sent
retrieveMetadataCached(cache, t, key, failed) ==
    IF cacheFresh(cache[key], t)
    THEN [called |-> TRUE, key |-> key, requested |-> FALSE, out |-> "resolved",
          data |-> cache[key].data]
    ELSE IF failed
    THEN [called |-> TRUE, key |-> key, requested |-> TRUE, out |-> "rejected",
          data |-> NoData]
    ELSE IF metaRef = NoSha \/ MetaFile(key) \notin DOMAIN CommitTree(metaRef)
    THEN [called |-> TRUE, key |-> key, requested |-> TRUE, out |-> "Not Found",
          data |-> NoData]
    ELSE [called |-> TRUE, key |-> key, requested |-> TRUE, out |-> "resolved",
          data |-> CommitTree(metaRef)[MetaFile(key)].sha.blob]

\* semaphore(1) (API.js 192-194)
semaphoreCapacity == 1

\* a semaphore that admits every task
semaphoreFree_Always(current) == TRUE

\* semaphore.take: the task runs at once when the slot is free, else it is queued
semaphoreFree(current) == current + 1 <= semaphoreCapacity

\* a semaphore that serves the most recent waiter first
semaphoreNext_Last(queue) == queue[Len(queue)]

\* semaphore.leave hands the slot to the task at the head of the queue
semaphoreNext(queue) == Head(queue)

RemoveFirst(queue, c) ==
    LET i == CHOOSE j \in 1..Len(queue) : queue[j] = c
    IN SubSeq(queue, 1, i - 1) \o SubSeq(queue, i + 1, Len(queue))

\* the steps of the task given to semaphore.take (API.js 196-219)
CriticalSteps == {"checkMetadataRef", "bootstrap", "createRef", "uploadBlob",
                  "updateTree", "commit", "patchRef", "patched"}

InCritical(c) == pc[c] \in CriticalSteps

InitMeta ==
    /\ \E pre \in {"absent", "readme", "k1"} :
        \/ pre = "absent" /\ metaRef = NoSha /\ metaCommits = << >>
                          /\ metaTree0 = ReadmeTree
        \/ pre = "readme" /\ metaRef = 1
                          /\ metaCommits = <<MetaCommit("First Commit", ReadmeTree, << >>)>>
                          /\ metaTree0 = ReadmeTree
        \/ pre = "k1" /\ metaRef = 2
                      /\ metaTree0 = SeededTree
                      /\ metaCommits =
                            <<MetaCommit("First Commit", ReadmeTree, << >>),
                              MetaCommit("Updating", SeededTree, <<1>>)>>
    /\ semCurrent = 0
    /\ semQueue = << >>
    /\ pc = [c \in Calls |-> "idle"]
    /\ args = [c \in Calls |-> [key |-> "k1", data |-> NoData]]
    /\ loc = [c \in Calls |-> NoLoc]
    /\ metaCache = [k \in MetaKeys |-> NoEntry]
    /\ now = 0
    /\ takeOrder = << >>
    /\ enterOrder = << >>
    /\ patchOrder = << >>
    /\ useOpenAuthoring = FALSE
    /\ heads = << >>
    /\ pulls = << >>
    /\ metaFiles = << >>
    /\ semTaken = FALSE
    /\ sent = {}
    /\ last = NoOp
    /\ opCount = 0
    /\ callArgs = << >>
    /\ callResult = NotCalled
    /\ DraftPinned

\* storeMetadata(key, data) is called (API.js 188-196): semaphore.take either
\* starts the task or queues it.  Calls are numbered in the order they are made.
StoreMetadata(c, key, data) ==
    /\ pc[c] = "idle"
    /\ \A d \in Calls : d < c => pc[d] # "idle"
    /\ args' = [args EXCEPT ![c] = [key |-> key, data |-> data]]
    /\ takeOrder' = Append(takeOrder, c)
    /\ IF semaphoreFree(semCurrent)
       THEN /\ semCurrent' = semCurrent + 1
            /\ pc' = [pc EXCEPT ![c] = "checkMetadataRef"]
            /\ enterOrder' = Append(enterOrder, c)
            /\ UNCHANGED semQueue
       ELSE /\ semQueue' = Append(semQueue, c)
            /\ pc' = [pc EXCEPT ![c] = "queued"]
            /\ UNCHANGED <<semCurrent, enterOrder>>
    /\ UNCHANGED <<metaRef, metaCommits, loc, metaCache, patchOrder, metaTree0, now, wfVars, fnVars, draftVars>>

\* checkMetadataRef, the GET of the ref answered (API.js 162-165)
CheckMetadataRefFound(c) ==
    /\ pc[c] = "checkMetadataRef"
    /\ metaRef # NoSha
    /\ loc' = [loc EXCEPT ![c].branchData = metaRef]
    /\ pc' = [pc EXCEPT ![c] = "uploadBlob"]
    /\ UNCHANGED <<metaRef, metaCommits, semCurrent, semQueue, args, metaCache,
                   takeOrder, enterOrder, patchOrder, metaTree0, now, wfVars, fnVars, draftVars>>

\* checkMetadataRef, the GET of the ref rejected, for a missing ref or for any
\* other reason: the catch branch is taken (API.js 166-172)
CheckMetadataRefRejected(c) ==
    /\ pc[c] = "checkMetadataRef"
    /\ pc' = [pc EXCEPT ![c] = "bootstrap"]
    /\ UNCHANGED <<metaRef, metaCommits, semCurrent, semQueue, args, loc, metaCache,
                   takeOrder, enterOrder, patchOrder, metaTree0, now, wfVars, fnVars, draftVars>>

\* the readme blob, its tree and the root commit 'First Commit' are created
\* (API.js 173-182); commit() gives no parent, the tree having no parentSha
Bootstrap(c) ==
    /\ pc[c] = "bootstrap"
    /\ metaCommits' = Append(metaCommits, MetaCommit("First Commit", ReadmeTree, << >>))
    /\ loc' = [loc EXCEPT ![c].sha = Len(metaCommits) + 1]
    /\ pc' = [pc EXCEPT ![c] = "createRef"]
    /\ UNCHANGED <<metaRef, semCurrent, semQueue, args, metaCache,
                   takeOrder, enterOrder, patchOrder, metaTree0, now, wfVars, fnVars, draftVars>>

\* a createRef that the remote answers by setting a ref that exists
CreateMetaRef_Overwrite(c) ==
    /\ pc[c] = "createRef"
    /\ metaRef' = loc[c].sha
    /\ loc' = [loc EXCEPT ![c].branchData = loc[c].sha, ![c].sha = NoSha]
    /\ pc' = [pc EXCEPT ![c] = "uploadBlob"]
    /\ UNCHANGED <<metaCommits, semCurrent, semQueue, args, metaCache,
                   takeOrder, enterOrder, patchOrder, metaTree0, now, wfVars, fnVars, draftVars>>

\* createRef('meta', '_netlify_cms', sha) (API.js 183-184, 917-922): the remote
\* creates the ref only when it does not exist
CreateMetaRef(c) ==
    /\ pc[c] = "createRef"
    /\ metaRef = NoSha
    /\ metaRef' = loc[c].sha
    /\ loc' = [loc EXCEPT ![c].branchData = loc[c].sha, ![c].sha = NoSha]
    /\ pc' = [pc EXCEPT ![c] = "uploadBlob"]
    /\ UNCHANGED <<metaCommits, semCurrent, semQueue, args, metaCache,
                   takeOrder, enterOrder, patchOrder, metaTree0, now, wfVars, fnVars, draftVars>>

\* uploadBlob of <key>.json (API.js 199-206)
UploadMetaBlob(c) ==
    /\ pc[c] = "uploadBlob"
    /\ pc' = [pc EXCEPT ![c] = "updateTree"]
    /\ UNCHANGED <<metaRef, metaCommits, semCurrent, semQueue, args, loc, metaCache,
                   takeOrder, enterOrder, patchOrder, metaTree0, now, wfVars, fnVars, draftVars>>

\* updateTree(branchData.sha, '/', fileTree) (API.js 207)
UpdateMetaTree(c) ==
    /\ pc[c] = "updateTree"
    /\ LET fileTree == MetaFile(args[c].key) :> File(BlobSha(args[c].data))
       IN loc' = [loc EXCEPT
                    ![c].changeTree = updateTree(CommitTree(loc[c].branchData), fileTree),
                    ![c].parentSha = loc[c].branchData]
    /\ pc' = [pc EXCEPT ![c] = "commit"]
    /\ UNCHANGED <<metaRef, metaCommits, semCurrent, semQueue, args, metaCache,
                   takeOrder, enterOrder, patchOrder, metaTree0, now, wfVars, fnVars, draftVars>>

\* commit(`Updating "key" metadata`, changeTree) (API.js 208, 1147-1150)
CommitMeta(c) ==
    /\ pc[c] = "commit"
    /\ metaCommits' = Append(metaCommits,
            MetaCommit("Updating", loc[c].changeTree,
                       IF loc[c].parentSha # NoSha THEN <<loc[c].parentSha>> ELSE << >>))
    /\ loc' = [loc EXCEPT ![c].sha = Len(metaCommits) + 1]
    /\ pc' = [pc EXCEPT ![c] = "patchRef"]
    /\ UNCHANGED <<metaRef, semCurrent, semQueue, args, metaCache,
                   takeOrder, enterOrder, patchOrder, metaTree0, now, wfVars, fnVars, draftVars>>

\* patchRef('meta', '_netlify_cms', sha) (API.js 209, 924-930): force is false,
\* so the remote moves the ref only forward
PatchMetaRef(c) ==
    /\ pc[c] = "patchRef"
    /\ metaRef # NoSha
    /\ IsAncestor(metaRef, loc[c].sha)
    /\ metaRef' = loc[c].sha
    /\ patchOrder' = Append(patchOrder, c)
    /\ pc' = [pc EXCEPT ![c] = "patched"]
    /\ UNCHANGED <<metaCommits, semCurrent, semQueue, args, loc, metaCache,
                   takeOrder, enterOrder, metaTree0, now, wfVars, fnVars, draftVars>>

\* after the patchRef: the cache entry is written, the slot is left and the
\* call resolves (API.js 210-215); leave starts the next queued task
StoreMetadataResolve(c) ==
    /\ pc[c] = "patched"
    /\ metaCache' = [metaCache EXCEPT ![args[c].key] =
                        [expires |-> now + TTL, data |-> args[c].data]]
    /\ IF semQueue = << >>
       THEN /\ semCurrent' = semCurrent - 1
            /\ pc' = [pc EXCEPT ![c] = "resolved"]
            /\ UNCHANGED <<semQueue, enterOrder>>
       ELSE LET n == semaphoreNext(semQueue)
            IN /\ semCurrent' = semCurrent
               /\ semQueue' = RemoveFirst(semQueue, n)
               /\ pc' = [pc EXCEPT ![c] = "resolved", ![n] = "checkMetadataRef"]
               /\ enterOrder' = Append(enterOrder, n)
    /\ UNCHANGED <<metaRef, metaCommits, args, loc, takeOrder, patchOrder, metaTree0, now, wfVars, fnVars, draftVars>>

\* a request of the task is rejected: the catch rejects the call and the
\* slot is not left (API.js 216-218)
StoreMetadataReject(c) ==
    /\ pc[c] \in CriticalSteps \ {"checkMetadataRef", "patched"}
    /\ pc' = [pc EXCEPT ![c] = "rejected"]
    /\ UNCHANGED <<metaRef, metaCommits, semCurrent, semQueue, args, loc, metaCache,
                   takeOrder, enterOrder, patchOrder, metaTree0, now, wfVars, fnVars, draftVars>>

NextMeta ==
    \/ \E c \in Calls, key \in MetaKeys, data \in Data : StoreMetadata(c, key, data)
    \/ \E c \in Calls : CheckMetadataRefFound(c)
    \/ \E c \in Calls : CheckMetadataRefRejected(c)
    \/ \E c \in Calls : Bootstrap(c)
    \/ \E c \in Calls : CreateMetaRef(c)
    \/ \E c \in Calls : UploadMetaBlob(c)
    \/ \E c \in Calls : UpdateMetaTree(c)
    \/ \E c \in Calls : CommitMeta(c)
    \/ \E c \in Calls : PatchMetaRef(c)
    \/ \E c \in Calls : StoreMetadataResolve(c)
    \/ \E c \in Calls : StoreMetadataReject(c)

SpecMeta == InitMeta /\ [][NextMeta]_vars

\* storeMetadata is called while no other call is under way, MaxOps times at
\* most
StoreMetadataInTurn(c, key, data) ==
    /\ Len(takeOrder) < MaxOps
    /\ \A d \in Calls : pc[d] \in {"idle", "resolved", "rejected"}
    /\ StoreMetadata(c, key, data)

\* retrieveMetadata(key) is called and runs to its end
RetrieveMetadata(key, failed) ==
    /\ callResult' = retrieveMetadataCached(metaCache, now, key, failed)
    /\ UNCHANGED <<callArgs, metaVars, wfVars, draftVars>>

\* time passes between the calls of storeMetadata
Tick ==
    /\ now < Horizon
    /\ \A d \in Calls : pc[d] \in {"idle", "resolved", "rejected"}
    /\ now' = now + ClockStep
    /\ UNCHANGED <<metaRef, metaCommits, semCurrent, semQueue, pc, args, loc, metaCache,
                   takeOrder, enterOrder, patchOrder, metaTree0, wfVars, fnVars, draftVars>>

\* the metadata store with its cache: calls of storeMetadata one after
\* another, calls of retrieveMetadata, and the clock
NextCache ==
    \/ \E c \in Calls, key \in MetaKeys, data \in Data : StoreMetadataInTurn(c, key, data)
    \/ \E c \in Calls : CheckMetadataRefFound(c)
    \/ \E c \in Calls : CheckMetadataRefRejected(c)
    \/ \E c \in Calls : Bootstrap(c)
    \/ \E c \in Calls : CreateMetaRef(c)
    \/ \E c \in Calls : UploadMetaBlob(c)
    \/ \E c \in Calls : UpdateMetaTree(c)
    \/ \E c \in Calls : CommitMeta(c)
    \/ \E c \in Calls : PatchMetaRef(c)
    \/ \E c \in Calls : StoreMetadataResolve(c)
    \/ \E c \in Calls : StoreMetadataReject(c)
    \/ \E key \in MetaKeys, failed \in BOOLEAN : RetrieveMetadata(key, failed)
    \/ Tick

SpecCache == InitMeta /\ [][NextCache]_vars

-----------------------------------------------------------------------------
(* Claims about the metadata store *)

IsPrefix(s, t) == Len(s) <= Len(t) /\ \A i \in 1..Len(s) : s[i] = t[i]

Orders == {o \in [Calls -> Calls] : \A c, d \in Calls : o[c] = o[d] => c = d}

\* the tree after the writes of the calls o[i], o[i+1], ... are laid over tree t
RECURSIVE WritesApplied(_, _, _)
WritesApplied(t, o, i) ==
    IF i > MaxCalls THEN t
    ELSE LET f == MetaFile(args[o[i]].key)
             e == [mode |-> "100644", type |-> "blob", sha |-> BlobSha(args[o[i]].data)]
         IN WritesApplied([p \in DOMAIN t \cup {f} |-> IF p = f THEN e ELSE t[p]], o, i + 1)

\* C1: at most one storeMetadata call of the client instance is inside its
\* critical section (checkMetadataRef through patchRef) at any time.
C1_MutualExclusion == Cardinality({c \in Calls : InCritical(c)}) <= 1

C1_Witness == \E c, d \in Calls : pc[c] = "patchRef" /\ pc[d] = "queued"

\* C2: when a storeMetadata call fails the slot is released, so a call waiting
\* for the slot is never left behind a call that has already finished: some
\* call is inside its critical section whenever a call is queued.
C2_SlotReleasedOnFailure ==
    \A c \in Calls : pc[c] = "queued" => \E d \in Calls : InCritical(d)

\* C3: once all the concurrent storeMetadata calls have resolved, the tree of
\* refs/meta/_netlify_cms is the result of applying their writes one after
\* another in some order: no write is lost and no entry is dropped.
C3_SerialOutcome ==
    (\A c \in Calls : pc[c] = "resolved") =>
        \E o \in Orders : CommitTree(metaRef) = WritesApplied(metaTree0, o, 1)

C3_Witness ==
    /\ \A c \in Calls : pc[c] = "resolved"
    /\ \E c, d, e \in Calls :
        /\ args[c].key = args[d].key /\ args[c].data # args[d].data
        /\ args[e].key # args[c].key

\* C4: waiting calls enter the critical section in the order they were
\* issued, and the commits on the metadata ref follow that order.
C4_ArrivalOrder == IsPrefix(enterOrder, takeOrder) /\ IsPrefix(patchOrder, enterOrder)

C4_Witness ==
    /\ Len(enterOrder) = MaxCalls
    /\ pc[enterOrder[MaxCalls]] = "patched"
    /\ Len(patchOrder) = MaxCalls

\* C25: refs/meta/_netlify_cms is created, on a commit without parents whose
\* tree holds README.md only, only while it does not exist; after that every
\* move of the ref is the patch of a storeMetadata call to a commit whose
\* only parent is the tip before, with the file of the call written and every
\* file of the tip before kept: the ref is never set back to a root commit.
C25_MetaRefGrows ==
    [][metaRef' # metaRef =>
        LET new == metaCommits'[metaRef']
        IN IF metaRef = NoSha
           THEN new.parents = << >> /\ new.tree = ReadmeTree
           ELSE /\ new.parents = <<metaRef>>
                /\ \E c \in Calls :
                    /\ pc[c] = "patchRef" /\ pc'[c] = "patched"
                    /\ MetaFile(args[c].key) \in DOMAIN new.tree
                    /\ new.tree[MetaFile(args[c].key)].sha = BlobSha(args[c].data)
                    /\ \A p \in DOMAIN CommitTree(metaRef) :
                        /\ p \in DOMAIN new.tree
                        /\ p # MetaFile(args[c].key) => new.tree[p] = CommitTree(metaRef)[p]]_vars

\* the ref was created by the first call, and two calls for different keys
\* have moved it since
C25_Witness ==
    /\ metaTree0 = ReadmeTree
    /\ Len(metaCommits) = 3
    /\ metaCommits[metaRef].parents = <<2>>
    /\ Len(patchOrder) = 2
    /\ args[patchOrder[1]].key # args[patchOrder[2]].key
    /\ \A c \in {patchOrder[1], patchOrder[2]} :
            MetaFile(args[c].key) \in DOMAIN CommitTree(metaRef)

\* the GET of a ref that exists was rejected, the root commit was made, and
\* the creation of the ref was refused
C25_WitnessRefused ==
    \E c \in Calls :
        /\ pc[c] = "rejected"
        /\ loc[c].sha # NoSha
        /\ metaCommits[loc[c].sha].parents = << >>
        /\ metaRef # NoSha
        /\ metaRef # loc[c].sha

\* C27: retrieveMetadata serves the entry of the cache for TTL after
\* the storeMetadata that wrote it resolved, without a request and whatever
\* the remote would answer; with no entry or an expired one it requests
\* <key>.json at the metadata ref and resolves with what the ref holds.  The
\* cache changes only when a storeMetadata call whose patch of the ref
\* succeeded resolves, to that call's data with expiry TTL from then; a call
\* that rejects leaves it as it is.
C27_CacheFirst ==
    [][/\ \A key \in MetaKeys, failed \in BOOLEAN :
            RetrieveMetadata(key, failed) =>
                IF metaCache[key] # NoEntry /\ now < metaCache[key].expires
                THEN /\ ~callResult'.requested
                     /\ callResult'.out = "resolved"
                     /\ callResult'.data = metaCache[key].data
                ELSE /\ callResult'.requested
                     /\ callResult'.out = "resolved" =>
                            /\ metaRef # NoSha
                            /\ CommitTree(metaRef)[MetaFile(key)].sha
                                    = BlobSha(callResult'.data)
       /\ metaCache' # metaCache =>
            \E c \in Calls :
                /\ pc[c] = "patched" /\ pc'[c] = "resolved"
                /\ \E i \in 1..Len(patchOrder) : patchOrder[i] = c
                /\ metaCache' = [metaCache EXCEPT ![args[c].key] =
                                    [expires |-> now + TTL, data |-> args[c].data]]
       /\ \A c \in Calls :
            pc[c] = "patched" /\ pc'[c] = "resolved" =>
                /\ metaCache'[args[c].key].data = args[c].data
                /\ metaCache'[args[c].key].expires = now + TTL
       /\ \A c \in Calls :
            pc[c] # "rejected" /\ pc'[c] = "rejected" => metaCache' = metaCache]_vars

\* an entry was served from the cache some time after it was written
C27_Witness ==
    /\ callResult # NotCalled
    /\ ~callResult.requested
    /\ metaCache[callResult.key] # NoEntry
    /\ metaCache[callResult.key].data = callResult.data
    /\ metaCache[callResult.key].expires - TTL < now
    /\ now < metaCache[callResult.key].expires

\* the file was requested though the cache holds an entry: it has expired
C27_WitnessExpired ==
    /\ callResult # NotCalled
    /\ callResult.requested
    /\ callResult.out = "resolved"
    /\ metaCache[callResult.key] # NoEntry
    /\ metaCache[callResult.key].expires <= now

-----------------------------------------------------------------------------
(* Key and branch scheme.  Names are sequences of characters. *)

CMS_BRANCH_PREFIX == <<"c", "m", "s">>

repo == <<"u", "/", "r">>           \* config.repo
branch == <<"m">>                   \* config.branch
otherBranch == <<"c", "m", "s", "x">>   \* a branch of the repository that is no workflow branch
collectionName == <<"p">>
Slugs == {<<"a">>}

generateContentKey(collection, slug) ==
    IF ~useOpenAuthoring THEN slug
    ELSE repo \o <<"/">> \o collection \o <<"/">> \o slug

generateBranchName(contentKey) == CMS_BRANCH_PREFIX \o <<"/">> \o contentKey

startsWith(str, prefix) ==
    Len(str) >= Len(prefix) /\ SubSeq(str, 1, Len(prefix)) = prefix

\* a guard that forgets the slash after the prefix
assertCmsBranch_NoSlash(branchName) == startsWith(branchName, CMS_BRANCH_PREFIX)

assertCmsBranch(branchName) == startsWith(branchName, CMS_BRANCH_PREFIX \o <<"/">>)

REFS_HEADS == <<"r", "e", "f", "s", "/", "h", "e", "a", "d", "s", "/">>

\* str.substring(start), start counted from 0
substring(str, start) == SubSeq(str, start + 1, Len(str))

\* branchNameFromRef (API.js 153-155)
branchNameFromRef(ref) == substring(ref, Len(REFS_HEADS))

\* contentKeyFromRef (API.js 157-159)
contentKeyFromRef(ref) == substring(ref, Len(REFS_HEADS \o CMS_BRANCH_PREFIX \o <<"/">>))

\* str.split(sep): the pieces of str between the separators
RECURSIVE split(_, _)
split(str, sep) ==
    IF \A i \in 1..Len(str) : str[i] # sep THEN <<str>>
    ELSE LET i == CHOOSE j \in 1..Len(str) :
                    str[j] = sep /\ \A k \in 1..(j - 1) : str[k] # sep
         IN <<SubSeq(str, 1, i - 1)>> \o split(SubSeq(str, i + 1, Len(str)), sep)

\* the element of an array at an index counted from 0, undefined past its end
At(array, index) == IF index + 1 \in 1..Len(array) THEN array[index + 1] ELSE <<"undefined">>

\* const [, collectionName, slug] = contentKey.split('/') (API.js 435)
CollectionAndSlug(contentKey) ==
    LET parts == split(contentKey, "/")
    IN [collectionName |-> At(parts, 1), slug |-> At(parts, 2)]

\* const [user, repo] = key.split('/') (API.js 257)
UserAndRepo(key) ==
    LET parts == split(key, "/")
    IN [user |-> At(parts, 0), repo |-> At(parts, 1)]

ContentKeys ==
    Slugs \cup {repo \o <<"/">> \o collectionName \o <<"/">> \o slug : slug \in Slugs}

BranchNames == {branch, otherBranch} \cup {generateBranchName(k) : k \in ContentKeys}

KeyOf(slug) == generateContentKey(collectionName, slug)
BranchOf(slug) == generateBranchName(KeyOf(slug))

-----------------------------------------------------------------------------
(* Files, file trees and commits of the repository *)

Contents == {1, 2}
MediaPaths == {<<"static", "x.png">>}
MediaBlob == 7
OldBlob == 8

EntryPath(slug) == <<"content", slug[1] \o ".md">>

\* composeFileTree (API.js 510-533): the files that are not skipped, nested by
\* the segments of their paths
RECURSIVE composeFileTree(_)
composeFileTree(files) ==
    LET live == {f \in files : ~f.skip}
        firsts == {f.path[1] : f \in live}
        leaf(seg) == CHOOSE f \in live : f.path = <<seg>>
        below(seg) == {[f EXCEPT !.path = Tail(f.path)] :
                          f \in {g \in live : g.path[1] = seg /\ Len(g.path) > 1}}
    IN [seg \in firsts |->
            IF \E f \in live : f.path = <<seg>>
            THEN [file |-> TRUE, sha |-> leaf(seg).sha, remove |-> leaf(seg).remove]
            ELSE [file |-> FALSE, dir |-> composeFileTree(below(seg))]]

\* the entry of a tree at a path, NullSha when there is none
RECURSIVE ShaAt(_, _)
ShaAt(tree, path) ==
    IF path[1] \notin DOMAIN tree THEN NullSha
    ELSE IF Len(path) = 1 THEN tree[path[1]].sha
    ELSE IF tree[path[1]].type # "tree" THEN NullSha
    ELSE ShaAt(getTree(tree[path[1]].sha), Tail(path))

\* the remote's merge of a head tree into a base tree
RECURSIVE MergeTrees(_, _)
MergeTrees(base, head) ==
    [seg \in DOMAIN base \cup DOMAIN head |->
        IF seg \notin DOMAIN head THEN base[seg]
        ELSE IF seg \notin DOMAIN base THEN head[seg]
        ELSE IF base[seg].type = "tree" /\ head[seg].type = "tree"
        THEN [head[seg] EXCEPT
                !.sha = TreeSha(MergeTrees(getTree(base[seg].sha), getTree(head[seg].sha)))]
        ELSE head[seg]]

Message(text, paths) == [text |-> text, paths |-> paths]

NoCommit == [none |-> TRUE]

\* a value the client leaves out of a request, and the user the remote then
\* records: the authenticated user
Undefined == "undefined"
Self == "user"

\* a commit of the repository
Commit(message, tree, parents, author, committer) ==
    [message |-> message, tree |-> tree, parents |-> parents,
     author |-> IF author = Undefined THEN Self ELSE author,
     committer |-> IF committer = Undefined THEN Self ELSE committer]

\* commit a is commit b or an ancestor of it
RECURSIVE Ancestor(_, _)
Ancestor(a, b) ==
    \/ a = b
    \/ /\ b # NoCommit
       /\ \E i \in 1..Len(b.parents) : Ancestor(a, b.parents[i])

-----------------------------------------------------------------------------
(* The requests of one operation.  An operation runs on a world w, the remote
   state and the client's cache, and stops at the first request that is
   rejected; fail names the request the remote rejects for a reason of its
   own. *)

\* the value undefined that a call returns
Nothing == [nothing |-> TRUE]

NoMeta == [none |-> TRUE]
NoPR == [none |-> TRUE]

World ==
    [heads |-> heads, pulls |-> pulls, metaFiles |-> metaFiles,
     semTaken |-> semTaken, sent |-> sent,
     made |-> NoCommit, posted |-> << >>, listed |-> {},
     out |-> "running", err |-> "none"]

Running(w) == w.out = "running"
Reject(w, message) == [w EXCEPT !.out = "rejected", !.err = message]
Resolve(w) == IF Running(w) THEN [w EXCEPT !.out = "resolved"] ELSE w

\* a request that changes nothing on the remote
request(w, failed) ==
    IF Running(w) /\ failed THEN Reject(w, "failed") ELSE w

\* getBranch (API.js 938-940)
getBranch(w, failed, name) ==
    IF ~Running(w) THEN w
    ELSE IF failed THEN Reject(w, "failed")
    ELSE IF w.heads[name] = NoCommit THEN Reject(w, "Branch not found")
    ELSE w

\* createCommit (API.js 1152-1157); w.made is the commit the remote returns,
\* w.posted the objects the operation has created so far
createCommit(w, failed, message, tree, parents, author, committer) ==
    IF ~Running(w) THEN w
    ELSE IF failed THEN Reject(w, "failed")
    ELSE LET made == Commit(message, tree, parents, author, committer)
         IN [w EXCEPT !.made = made,
                      !.posted = Append(w.posted, [kind |-> "commit", sha |-> made])]

\* commit (API.js 1147-1150): the parent is changeTree.parentSha when there is one
commit(w, failed, message, tree, parentSha) ==
    createCommit(w, failed, message, tree,
                 IF parentSha # NoCommit THEN <<parentSha>> ELSE << >>,
                 Undefined, Undefined)

\* a createBranch that points the new branch at the tip of the base branch
createBranch_AtBase(w, failed, name, sha) ==
    IF ~Running(w) THEN w
    ELSE IF failed THEN Reject(w, "failed")
    ELSE IF w.heads[name] # NoCommit THEN Reject(w, "Reference already exists")
    ELSE [w EXCEPT !.heads[name] = w.heads[branch]]

\* createBranch (API.js 942-944, 917-922)
createBranch(w, failed, name, sha) ==
    IF ~Running(w) THEN w
    ELSE IF failed THEN Reject(w, "failed")
    ELSE IF w.heads[name] # NoCommit THEN Reject(w, "Reference already exists")
    ELSE [w EXCEPT !.heads[name] = sha]

\* patchRef('heads', ...) (API.js 924-930): the remote moves an existing ref,
\* forward only unless force
patchRef(w, failed, name, sha, force) ==
    IF ~Running(w) THEN w
    ELSE LET s == [w EXCEPT !.sent = w.sent \cup {[name |-> name, force |-> force]}]
         IN IF failed THEN Reject(s, "failed")
            ELSE IF s.heads[name] = NoCommit THEN Reject(s, "Reference does not exist")
            ELSE IF ~force /\ ~Ancestor(s.heads[name], sha)
            THEN Reject(s, "Update is not a fast forward")
            ELSE [s EXCEPT !.heads[name] = sha]

\* patchBranch (API.js 950-956)
patchBranch(w, failed, name, sha, force) ==
    IF ~Running(w) THEN w
    ELSE IF force /\ ~assertCmsBranch(name)
    THEN Reject(w, "Only CMS branches can be force updated")
    ELSE patchRef(w, failed, name, sha, force)

\* deleteBranch (API.js 958-960, 932-936)
deleteBranch(w, failed, name) ==
    IF ~Running(w) THEN w
    ELSE IF failed THEN Reject(w, "failed")
    ELSE IF w.heads[name] = NoCommit THEN Reject(w, "Reference does not exist")
    ELSE [w EXCEPT !.heads[name] = NoCommit,
                   !.pulls = [n \in 1..Len(w.pulls) |->
                                IF w.pulls[n].head = name /\ w.pulls[n].state = "open"
                                THEN [w.pulls[n] EXCEPT !.state = "closed"]
                                ELSE w.pulls[n]]]

\* retrieveMetadata (API.js 223-262): the cached data while it has not
\* expired, else <key>.json at refs/meta/_netlify_cms. storeMetadata writes
\* the same data to the file and to the cache (API.js 198-212) and nothing
\* else writes either, so an unexpired cache entry holds the file's content:
\* both are metaFiles[key]. A failed retrieval is an expired or missing cache
\* entry followed by a rejected request.
Retrieved(w, key) == w.metaFiles[key]

retrieveMetadata(w, failed, key) ==
    IF ~Running(w) THEN w
    ELSE IF failed THEN Reject(w, "failed")
    ELSE IF w.metaFiles[key] = NoMeta THEN Reject(w, "Not Found")
    ELSE w

\* storeMetadata (API.js 188-221) as one step: the task waits for ever when
\* the slot is taken; a rejected request leaves the slot taken
storeMetadata(w, failed, key, data) ==
    IF ~Running(w) THEN w
    ELSE IF w.semTaken THEN [w EXCEPT !.out = "blocked"]
    ELSE IF failed THEN [Reject(w, "failed") EXCEPT !.semTaken = TRUE]
    ELSE [w EXCEPT !.metaFiles[key] = data]

\* createPR (API.js 962-973)
createPR(w, failed, head) ==
    IF ~Running(w) THEN w
    ELSE IF failed THEN Reject(w, "failed")
    ELSE IF w.heads[head] = NoCommit THEN Reject(w, "Validation Failed")
    ELSE IF \E n \in 1..Len(w.pulls) : w.pulls[n].head = head /\ w.pulls[n].state = "open"
    THEN Reject(w, "A pull request already exists")
    ELSE [w EXCEPT !.pulls = Append(w.pulls,
                        [head |-> head, state |-> "open", merged |-> FALSE])]

LastPull(w) == Len(w.pulls)

\* openPR, closePR (API.js 975-995)
patchPR(w, failed, pr, state) ==
    IF ~Running(w) THEN w
    ELSE IF failed THEN Reject(w, "failed")
    ELSE IF pr.number \notin 1..Len(w.pulls) THEN Reject(w, "Not Found")
    ELSE IF w.pulls[pr.number].merged
    THEN IF state = "open" THEN Reject(w, "Validation Failed") ELSE w
    ELSE [w EXCEPT !.pulls[pr.number].state = state]

openPR(w, failed, pr) == patchPR(w, failed, pr, "open")
closePR(w, failed, pr) == patchPR(w, failed, pr, "closed")

-----------------------------------------------------------------------------
(* The operations of the client *)

initialWorkflowStatus == "draft"    \* config.initialWorkflowStatus
Statuses == {"draft", "pending_review", "pending_publish"}

Uploads == {"absent", "new", "uploaded"}

\* the files handed to persistFiles; uploadBlob has given each its sha, and a
\* media file that was uploaded before the call is skipped (API.js 536-548).
\* The entry is a fresh object in every call.
EntryFile(slug, content) ==
    [path |-> EntryPath(slug), sha |-> BlobSha(content), skip |-> FALSE, remove |-> FALSE]

MediaFiles(media) ==
    {[path |-> p, sha |-> BlobSha(MediaBlob), skip |-> media[p] = "uploaded", remove |-> FALSE] :
        p \in {q \in MediaPaths : media[q] # "absent"}}

\* mediaFilesList (API.js 558-561)
MediaFilesList(media) ==
    {[path |-> p, sha |-> BlobSha(MediaBlob)] : p \in {q \in MediaPaths : media[q] # "absent"}}

Stored(f) == [path |-> f.path, sha |-> f.sha]


\* editorialWorkflowGit for a new entry (API.js 535-562, 610-657)
PersistNew(w0, slug, content, media, fail) ==
    LET key == KeyOf(slug)
        branchName == BranchOf(slug)
        entry == EntryFile(slug, content)
        files == MediaFiles(media) \cup {entry}
        w1 == request(w0, fail = "uploadBlob")
        fileTree == composeFileTree(files)
        w2 == getBranch(w1, fail = "getBranch", branch)
        base == w0.heads[branch]
        w3 == request(w2, fail = "updateTree")
        changeTree == updateTree(base.tree, fileTree)
        w4 == commit(w3, fail = "commit", Message("commitMessage", {}), changeTree, base)
        w5 == createBranch(w4, fail = "createBranch", branchName, w4.made)
        w6 == IF useOpenAuthoring THEN w5 ELSE createPR(w5, fail = "createPR", branchName)
        pr == IF useOpenAuthoring THEN NoPR
              ELSE [number |-> LastPull(w6), head |-> w6.heads[branchName], headObject |-> FALSE]
        w7 == request(w6, fail = "user")
        w8 == storeMetadata(w7, fail = "storeMetadata", key,
                  [status |-> initialWorkflowStatus, pr |-> pr, branch |-> branchName,
                   collection |-> collectionName,
                   objects |-> [entry |-> Stored(entry), files |-> MediaFilesList(media)]])
    IN Resolve(w8)

\* persistFiles without the workflow (API.js 550-556)
PersistDirect(w0, slug, content, media, fail) ==
    LET files == MediaFiles(media) \cup {EntryFile(slug, content)}
        w1 == request(w0, fail = "uploadBlob")
        w2 == getBranch(w1, fail = "getBranch", branch)
        base == w0.heads[branch]
        w3 == request(w2, fail = "updateTree")
        changeTree == updateTree(base.tree, composeFileTree(files))
        w4 == commit(w3, fail = "commit", Message("commitMessage", {}), changeTree, base)
        w5 == patchBranch(w4, fail = "patchBranch", branch, w4.made, FALSE)
    IN Resolve(w5)

\* forceMergePR (API.js 1016-1031)
forceMergePR(w, fail, pullrequest, objects) ==
    LET files == {[path |-> f.path, sha |-> f.sha, skip |-> FALSE, remove |-> FALSE] :
                    f \in objects.files \cup {objects.entry}}
        fileTree == composeFileTree(files)
        commitMessage == Message("Force merge of", {f.path : f \in files})
        w1 == getBranch(w, fail = "getBranch", branch)
        base == w.heads[branch]
        w2 == request(w1, fail = "updateTree")
        w3 == commit(w2, fail = "commit", commitMessage,
                     updateTree(base.tree, fileTree), base)
    IN patchBranch(w3, fail = "patchBranch", branch, w3.made, FALSE)

\* a mergePR that lets the 405 through
mergePR_NoFallback(w, fail, answer, pullrequest, objects) ==
    IF ~Running(w) THEN w
    ELSE IF fail = "mergePR" THEN Reject(w, "failed")
    ELSE IF pullrequest.number \notin 1..Len(w.pulls) THEN Reject(w, "Not Found")
    ELSE Reject(w, "405")

\* mergePR (API.js 997-1014).  The remote merges an open pull request whose
\* head is the sha sent, unless it answers 405 (not mergeable); the merge
\* commit joins the base tip and the head.
mergePR(w, fail, answer, pullrequest, objects) ==
    IF ~Running(w) THEN w
    ELSE IF fail = "mergePR" THEN Reject(w, "failed")
    ELSE IF pullrequest.number \notin 1..Len(w.pulls) THEN Reject(w, "Not Found")
    ELSE LET pull == w.pulls[pullrequest.number]
             base == w.heads[branch]
             head == w.heads[pull.head]
         IN IF answer = "405" \/ pull.state # "open" \/ head = NoCommit
            THEN forceMergePR(w, fail, pullrequest, objects)
            ELSE IF pullrequest.head # head
            THEN Reject(w, "Head branch was modified")
            ELSE [w EXCEPT
                    !.heads[branch] =
                        Commit(Message("Merged on Netlify CMS", {}),
                               MergeTrees(base.tree, head.tree), <<base, head>>,
                               Undefined, Undefined),
                    !.pulls[pullrequest.number] = [pull EXCEPT !.state = "closed", !.merged = TRUE]]

\* a publishUnpublishedEntry that deletes the branch before it merges
Publish_DeleteFirst(w0, slug, fail, answer) ==
    LET key == KeyOf(slug)
        w1 == retrieveMetadata(w0, fail = "retrieveMetadata", key)
        metadata == Retrieved(w0, key)
        w2 == IF Running(w1) /\ metadata.pr = NoPR THEN Reject(w1, "TypeError") ELSE w1
        w3 == deleteBranch(w2, fail = "deleteBranch", BranchOf(slug))
        w4 == mergePR(w3, fail, answer, metadata.pr, metadata.objects)
    IN Resolve(w4)

\* publishUnpublishedEntry (API.js 909-915)
Publish(w0, slug, fail, answer) ==
    LET key == KeyOf(slug)
        w1 == retrieveMetadata(w0, fail = "retrieveMetadata", key)
        metadata == Retrieved(w0, key)
        w2 == IF Running(w1) /\ metadata.pr = NoPR THEN Reject(w1, "TypeError") ELSE w1
        w3 == mergePR(w2, fail, answer, metadata.pr, metadata.objects)
        w4 == deleteBranch(w3, fail = "deleteBranch", BranchOf(slug))
    IN Resolve(w4)

\* a catch that lets every error through
deleteCatch_Rethrow(w) == w

\* the catch of deleteUnpublishedEntry (API.js 899-905)
deleteCatch(w) ==
    IF w.out = "rejected" /\ w.err = "Reference does not exist"
    THEN [w EXCEPT !.out = "resolved"]
    ELSE w

\* deleteUnpublishedEntry (API.js 889-907); a key that names no entry has no
\* metadata file
deleteUnpublishedEntry(w0, collection, slug, fail) ==
    LET key == generateContentKey(collection, slug)
        branchName == generateBranchName(key)
    IN IF key \notin DOMAIN w0.metaFiles
       THEN Resolve(deleteCatch(IF fail = "retrieveMetadata" THEN Reject(w0, "failed")
                                ELSE Reject(w0, "Not Found")))
       ELSE LET w1 == retrieveMetadata(w0, fail = "retrieveMetadata", key)
                metadata == Retrieved(w0, key)
                w2 == IF Running(w1) /\ metadata.pr # NoPR
                      THEN closePR(w1, fail = "closePR", metadata.pr)
                      ELSE w1
                w3 == deleteBranch(w2, fail = "deleteBranch", branchName)
            IN Resolve(deleteCatch(w3))

Delete(w0, slug, fail) == deleteUnpublishedEntry(w0, collectionName, slug, fail)

\* getPullRequest (API.js 811-813)
getPullRequest(w, failed, prNumber) ==
    IF ~Running(w) THEN w
    ELSE IF failed THEN Reject(w, "failed")
    ELSE IF prNumber \notin 1..Len(w.pulls) THEN Reject(w, "Not Found")
    ELSE w

\* an updateUnpublishedEntryStatus that writes the metadata before it changes
\* the pull request
UpdateStatus_StoreFirst(w0, slug, status, fail) ==
    LET key == KeyOf(slug)
        w1 == retrieveMetadata(w0, fail = "retrieveMetadata", key)
        metadata == Retrieved(w0, key)
        prMetadata == metadata.pr
        store(w, data) == storeMetadata(w, fail = "storeMetadata", key, data)
    IN Resolve(
        IF ~Running(w1) THEN w1
        ELSE IF ~useOpenAuthoring THEN store(w1, [metadata EXCEPT !.status = status])
        ELSE IF status = "pending_publish"
        THEN Reject(w1, "Open Authoring entries may not be set to the status pending_publish")
        ELSE IF prMetadata # NoPR
        THEN LET w2 == getPullRequest(w1, fail = "getPullRequest", prMetadata.number)
                 state == w1.pulls[prMetadata.number].state
             IN IF ~Running(w2) THEN w2
                ELSE IF state = "open" /\ status = "draft"
                THEN closePR(store(w2, [metadata EXCEPT !.status = status]),
                             fail = "closePR", prMetadata)
                ELSE IF state = "closed" /\ status = "pending_review"
                THEN openPR(store(w2, [metadata EXCEPT !.status = status]),
                            fail = "openPR", prMetadata)
                ELSE w2
        ELSE IF status = "pending_review"
        THEN LET w2 == createPR(w1, fail = "createPR", BranchOf(slug))
             IN store(w2, [metadata EXCEPT
                            !.pr = [number |-> LastPull(w2), head |-> w2.heads[BranchOf(slug)],
                                    headObject |-> TRUE],
                            !.status = status])
        ELSE w1)

\* an updateUnpublishedEntryStatus without the guard of pending_publish
UpdateStatus_NoForkGuard(w0, slug, status, fail) ==
    LET key == KeyOf(slug)
        w1 == retrieveMetadata(w0, fail = "retrieveMetadata", key)
        metadata == Retrieved(w0, key)
        prMetadata == metadata.pr
        store(w, data) == storeMetadata(w, fail = "storeMetadata", key, data)
    IN Resolve(
        IF ~Running(w1) THEN w1
        ELSE IF ~useOpenAuthoring THEN store(w1, [metadata EXCEPT !.status = status])
        ELSE IF prMetadata # NoPR
        THEN LET w2 == getPullRequest(w1, fail = "getPullRequest", prMetadata.number)
                 state == w1.pulls[prMetadata.number].state
             IN IF ~Running(w2) THEN w2
                ELSE IF state = "open" /\ status = "draft"
                THEN store(closePR(w2, fail = "closePR", prMetadata),
                           [metadata EXCEPT !.status = status])
                ELSE IF state = "closed" /\ status = "pending_review"
                THEN store(openPR(w2, fail = "openPR", prMetadata),
                           [metadata EXCEPT !.status = status])
                ELSE w2
        ELSE IF status = "pending_review"
        THEN LET w2 == createPR(w1, fail = "createPR", BranchOf(slug))
             IN store(w2, [metadata EXCEPT
                            !.pr = [number |-> LastPull(w2), head |-> w2.heads[BranchOf(slug)],
                                    headObject |-> TRUE],
                            !.status = status])
        ELSE w1)

\* updateUnpublishedEntryStatus (API.js 840-887)
UpdateStatus(w0, slug, status, fail) ==
    LET key == KeyOf(slug)
        w1 == retrieveMetadata(w0, fail = "retrieveMetadata", key)
        metadata == Retrieved(w0, key)
        prMetadata == metadata.pr
        store(w, data) == storeMetadata(w, fail = "storeMetadata", key, data)
    IN Resolve(
        IF ~Running(w1) THEN w1
        ELSE IF ~useOpenAuthoring THEN store(w1, [metadata EXCEPT !.status = status])
        ELSE IF status = "pending_publish"
        THEN Reject(w1, "Open Authoring entries may not be set to the status pending_publish")
        ELSE IF prMetadata # NoPR
        THEN LET w2 == getPullRequest(w1, fail = "getPullRequest", prMetadata.number)
                 state == w1.pulls[prMetadata.number].state
             IN IF ~Running(w2) THEN w2
                ELSE IF state = "open" /\ status = "draft"
                THEN store(closePR(w2, fail = "closePR", prMetadata),
                           [metadata EXCEPT !.status = status])
                ELSE IF state = "closed" /\ status = "pending_review"
                THEN store(openPR(w2, fail = "openPR", prMetadata),
                           [metadata EXCEPT !.status = status])
                ELSE w2
        ELSE IF status = "pending_review"
        THEN LET w2 == createPR(w1, fail = "createPR", BranchOf(slug))
             IN store(w2, [metadata EXCEPT
                            !.pr = [number |-> LastPull(w2), head |-> w2.heads[BranchOf(slug)],
                                    headObject |-> TRUE],
                            !.status = status])
        ELSE w1)

-----------------------------------------------------------------------------
(* Deletion of a published file *)

\* the tree without the file at a path; the remote keeps no empty directory
RECURSIVE RemoveAt(_, _)
RemoveAt(tree, path) ==
    IF Len(path) = 1 THEN [p \in DOMAIN tree \ {path[1]} |-> tree[p]]
    ELSE LET sub == RemoveAt(getTree(tree[path[1]].sha), Tail(path))
         IN IF DOMAIN sub = {} THEN [p \in DOMAIN tree \ {path[1]} |-> tree[p]]
            ELSE [tree EXCEPT ![path[1]].sha = TreeSha(sub)]

\* getFileSha (API.js 569-583): the listing of the file's directory on the
\* branch is requested and the file looked up in it
getFileSha(w, failed, path, branchName) ==
    IF ~Running(w) THEN w
    ELSE IF failed THEN Reject(w, "failed")
    ELSE IF w.heads[branchName] = NoCommit THEN Reject(w, "Not Found")
    ELSE IF ShaAt(w.heads[branchName].tree, <<path[1]>>) = NullSha THEN Reject(w, "Not Found")
    ELSE IF ShaAt(w.heads[branchName].tree, path) = NullSha THEN Reject(w, "TypeError")
    ELSE w

\* DELETE contents/<path> (API.js 593-601): the remote commits the removal
\* of the file on the branch
deleteContents(w, failed, path, branchName) ==
    IF ~Running(w) THEN w
    ELSE IF failed THEN Reject(w, "failed")
    ELSE LET tip == w.heads[branchName]
         IN [w EXCEPT !.heads[branchName] =
                Commit(Message("delete", {path}), RemoveAt(tip.tree, path), <<tip>>,
                       Undefined, Undefined)]

PermissionError == "Cannot delete published entries as an Open Authoring user!"

\* a deleteFile without the guard of open authoring
deleteFile_NoForkGuard(w0, path, fail) ==
    LET w1 == getFileSha(w0, fail = "getFileSha", path, branch)
        w2 == deleteContents(w1, fail = "deleteContents", path, branch)
    IN Resolve(w2)

\* deleteFile (API.js 585-603) on the base branch
deleteFile(w0, path, fail) ==
    IF useOpenAuthoring THEN Reject(w0, PermissionError)
    ELSE LET w1 == getFileSha(w0, fail = "getFileSha", path, branch)
             w2 == deleteContents(w1, fail = "deleteContents", path, branch)
         IN Resolve(w2)

-----------------------------------------------------------------------------
(* The list of the unpublished branches *)

\* str.includes(part)
Includes(str, part) ==
    \E i \in 0..(Len(str) - Len(part)) : SubSeq(str, i + 1, i + Len(part)) = part

\* the refs the remote returns for git/refs/heads/cms (API.js 478): every
\* branch whose name starts with cms
MatchingRefs(w) ==
    {REFS_HEADS \o n : n \in {b \in DOMAIN w.heads :
                                w.heads[b] # NoCommit /\ startsWith(b, CMS_BRANCH_PREFIX)}}

\* a handler that lets the 404 through
replace404WithEmptyArray_Rethrow(w, status) == Reject(w, "Not Found")

\* replace404WithEmptyArray (API.js 18-25): the error of the ref listing
replace404WithEmptyArray(w, status) ==
    IF status = 404 THEN w ELSE Reject(w, "failed")

\* getPRsForBranchName (API.js 392-409): the numbers of the pull requests
\* against the base branch whose head matches branchName, in the state asked
\* for; the remote lists the open ones when no state is asked for
getPRsForBranchName(w, branchName, state) ==
    {n \in 1..Len(w.pulls) :
        /\ Includes(w.pulls[n].head, branchName)
        /\ \/ state = "all"
           \/ w.pulls[n].state = (IF state = Undefined THEN "open" ELSE state)}

\* a branchHasPR that asks for pull requests in every state
branchHasPR_AnyState(w, branchName, state) ==
    \E n \in getPRsForBranchName(w, branchName, "all") : w.pulls[n].head = branchName

\* branchHasPR (API.js 411-414)
branchHasPR(w, branchName, state) ==
    \E n \in getPRsForBranchName(w, branchName, state) : w.pulls[n].head = branchName

\* filterPromisesWith of netlify-cms-lib-util: the elements for which the
\* filter resolves to true, bits[e] being what the filter resolves to for e;
\* a rejected filter rejects the whole
filterPromisesWith(w, failed, arr, bits) ==
    IF ~Running(w) THEN w
    ELSE IF failed /\ arr # {} THEN Reject(w, "failed")
    ELSE [w EXCEPT !.listed = {e \in arr : bits[e]}]

\* onlySuccessfulPromises of netlify-cms-lib-util, for one promise: its value
\* is kept when it resolves and dropped when it rejects
onlySuccessfulPromises(w, resolved, value) ==
    IF resolved THEN [w EXCEPT !.listed = @ \cup {value}] ELSE w

\* onlyBranchesWithOpenPRs (API.js 462-464)
onlyBranchesWithOpenPRs(w, fail, branches) ==
    filterPromisesWith(w, fail = "pulls", branches,
                       [ref \in branches |-> branchHasPR(w, branchNameFromRef(ref), "open")])

\* a task that is started and not awaited: its effects are those of the task,
\* its outcome is not the caller's
Detached(w, task) == [task EXCEPT !.out = w.out, !.err = w.err]

\* a getUpdatedOpenAuthoringMetadata that leaves the status of an entry whose
\* pull request was closed as it is
getUpdatedOpenAuthoringMetadata_NoDemote(w0, fail, contentKey) ==
    LET w1 == IF contentKey \in DOMAIN w0.metaFiles
              THEN retrieveMetadata(w0, fail = "retrieveMetadata", contentKey)
              ELSE Reject(w0, "Not Found")
    IN IF ~Running(w1) THEN [world |-> w1, returned |-> Nothing]
       ELSE
       LET metadata == Retrieved(w0, contentKey)
           prMetadata == metadata.pr
           status == metadata.status
           store(w, data) == storeMetadata(w, fail = "storeMetadata", contentKey, data)
           draft == [metadata EXCEPT !.status = "draft"]
           review == [metadata EXCEPT !.status = "pending_review"]
       IN IF prMetadata = NoPR /\ status # "draft"
          THEN [world |-> Detached(w1, store(w1, draft)), returned |-> draft]
          ELSE IF prMetadata # NoPR
          THEN LET w2 == getPullRequest(w1, fail = "getPullRequest", prMetadata.number)
                   originPRInfo == w1.pulls[prMetadata.number]
                   names == CollectionAndSlug(contentKey)
               IN IF ~Running(w2) THEN [world |-> w2, returned |-> Nothing]
                  ELSE IF originPRInfo.state = "closed" /\ originPRInfo.merged
                  THEN [world |-> Detached(w2, deleteUnpublishedEntry(
                                      w2, names.collectionName, names.slug, fail)),
                        returned |-> Nothing]
                  ELSE IF originPRInfo.state = "closed" /\ status # "draft"
                  THEN [world |-> w2, returned |-> metadata]
                  ELSE IF originPRInfo.state # "closed" /\ status # "pending_review"
                  THEN [world |-> store(w2, review), returned |-> review]
                  ELSE [world |-> w2, returned |-> metadata]
          ELSE [world |-> w1, returned |-> metadata]

\* getUpdatedOpenAuthoringMetadata (API.js 416-455): the world after it and
\* the metadata it returns, Nothing when it returns undefined
getUpdatedOpenAuthoringMetadata(w0, fail, contentKey) ==
    LET w1 == IF contentKey \in DOMAIN w0.metaFiles
              THEN retrieveMetadata(w0, fail = "retrieveMetadata", contentKey)
              ELSE Reject(w0, "Not Found")
    IN IF ~Running(w1) THEN [world |-> w1, returned |-> Nothing]
       ELSE
       LET metadata == Retrieved(w0, contentKey)
           prMetadata == metadata.pr
           status == metadata.status
           store(w, data) == storeMetadata(w, fail = "storeMetadata", contentKey, data)
           draft == [metadata EXCEPT !.status = "draft"]
           review == [metadata EXCEPT !.status = "pending_review"]
       IN IF prMetadata = NoPR /\ status # "draft"
          THEN [world |-> Detached(w1, store(w1, draft)), returned |-> draft]
          ELSE IF prMetadata # NoPR
          THEN LET w2 == getPullRequest(w1, fail = "getPullRequest", prMetadata.number)
                   originPRInfo == w1.pulls[prMetadata.number]
                   names == CollectionAndSlug(contentKey)
               IN IF ~Running(w2) THEN [world |-> w2, returned |-> Nothing]
                  ELSE IF originPRInfo.state = "closed" /\ originPRInfo.merged
                  THEN [world |-> Detached(w2, deleteUnpublishedEntry(
                                      w2, names.collectionName, names.slug, fail)),
                        returned |-> Nothing]
                  ELSE IF originPRInfo.state = "closed" /\ status # "draft"
                  THEN [world |-> store(w2, draft), returned |-> draft]
                  ELSE IF originPRInfo.state # "closed" /\ status # "pending_review"
                  THEN [world |-> store(w2, review), returned |-> review]
                  ELSE [world |-> w2, returned |-> metadata]
          ELSE [world |-> w1, returned |-> metadata]

\* getUpdatedOpenAuthoringBranches (API.js 465-476): one task for each
\* branch; a task that waits for ever keeps the whole from resolving
RECURSIVE getUpdatedOpenAuthoringBranches(_, _, _, _)
getUpdatedOpenAuthoringBranches(w, fail, branches, waiting) ==
    IF branches = {} THEN (IF waiting THEN [w EXCEPT !.out = "blocked"] ELSE w)
    ELSE LET ref == CHOOSE r \in branches : TRUE
             contentKey == contentKeyFromRef(ref)
             task == getUpdatedOpenAuthoringMetadata(w, fail, contentKey)
             after == [task.world EXCEPT !.out = "running", !.err = "none"]
             kept == Running(task.world) /\ task.returned # Nothing
         IN getUpdatedOpenAuthoringBranches(
                onlySuccessfulPromises(after, kept, ref), fail, branches \ {ref},
                waiting \/ task.world.out = "blocked")

\* listUnpublishedBranches (API.js 457-492)
ListBranches(w0, fail) ==
    LET refs == MatchingRefs(w0)
        status == IF fail = "refs" THEN 500 ELSE IF refs = {} THEN 404 ELSE 200
        w1 == IF status = 200 THEN w0 ELSE replace404WithEmptyArray(w0, status)
        branches == IF status = 200 THEN refs ELSE {}
    IN Resolve(IF ~Running(w1) THEN w1
               ELSE IF useOpenAuthoring
               THEN getUpdatedOpenAuthoringBranches(w1, fail, branches, FALSE)
               ELSE onlyBranchesWithOpenPRs(w1, fail, branches))

-----------------------------------------------------------------------------
(* Rebase of a pull request *)

Last(seq) == seq[Len(seq)]

\* a commit as the remote returns it
CommitObject(c) ==
    [sha |-> c, message |-> c.message, tree |-> c.tree, parents |-> c.parents,
     author |-> c.author, committer |-> c.committer]

\* getPullRequestCommits (API.js 818-820): the commits of the head branch
\* that are not on the base branch, oldest first
RECURSIVE PullCommits(_, _)
PullCommits(sha, base) ==
    IF sha = NoCommit \/ Ancestor(sha, base) THEN << >>
    ELSE IF sha.parents = << >> THEN <<CommitObject(sha)>>
    ELSE Append(PullCommits(sha.parents[1], base), CommitObject(sha))

Threw(error) == [ok |-> FALSE, error |-> error, commits |-> << >>]
Returned(list) == [ok |-> TRUE, error |-> "none", commits |-> list]

\* an assertHead that appends the head it was given in every case
assertHead_AlwaysAppend(list, headToAssert) ==
    IF list = << >> \/ headToAssert.parents = << >> THEN Threw("TypeError")
    ELSE Returned(Append(list, headToAssert))

\* assertHead (API.js 827-838)
assertHead(list, headToAssert) ==
    IF list = << >> \/ headToAssert.parents = << >> THEN Threw("TypeError")
    ELSE LET headIsMissing == headToAssert.parents[1] = Last(list).sha
             headIsNotMissing == headToAssert.sha = Last(list).sha
         IN IF headIsMissing THEN Returned(Append(list, headToAssert))
            ELSE IF headIsNotMissing THEN Returned(list)
            ELSE Threw("Editorial workflow branch changed unexpectedly.")

\* a createTree that forgets base_tree: only the entry given survives
RECURSIVE createTreeAt_NoBase(_, _, _)
createTreeAt_NoBase(tree, path, sha) ==
    path[1] :> (IF Len(path) = 1
                THEN [mode |-> "100644", type |-> "blob", sha |-> sha]
                ELSE [mode |-> "040000", type |-> "tree",
                      sha |-> TreeSha(createTreeAt_NoBase(EmptyTree, Tail(path), sha))])

\* the remote's createTree for one entry given with its full path
RECURSIVE createTreeAt(_, _, _)
createTreeAt(tree, path, sha) ==
    LET seg == path[1]
        entry == IF Len(path) = 1
                 THEN [mode |-> "100644", type |-> "blob", sha |-> sha]
                 ELSE [mode |-> "040000", type |-> "tree",
                       sha |-> TreeSha(createTreeAt(
                                 IF seg \in DOMAIN tree /\ tree[seg].type = "tree"
                                 THEN getTree(tree[seg].sha) ELSE EmptyTree,
                                 Tail(path), sha))]
    IN [p \in DOMAIN tree \cup {seg} |-> IF p = seg THEN entry ELSE tree[p]]

\* rebaseSingleBlobCommit (API.js 777-806): the blob of the commit at
\* pathToBlob is set in the tree of the new parent, and a commit with the
\* original message is created on that parent
rebaseSingleBlobCommit(w, failed, parentSha, commitToRebase, pathToBlob) ==
    LET blob == ShaAt(commitToRebase.tree, pathToBlob)
        tree == createTreeAt(parentSha.tree, pathToBlob, blob)
    IN IF ~Running(w) THEN w
       ELSE IF failed THEN Reject(w, "failed")
       ELSE IF blob = NullSha THEN Reject(w, "Validation Failed")
       ELSE createCommit([w EXCEPT !.posted = Append(w.posted,
                                        [kind |-> "tree", sha |-> TreeSha(tree)])],
                         FALSE, commitToRebase.message, tree, <<parentSha>>,
                         commitToRebase.author, commitToRebase.committer)

\* a replay that puts every commit on the base commit
RECURSIVE Replay_AllOnBase(_, _, _, _, _)
Replay_AllOnBase(w, failed, parentSha, list, pathToBlob) ==
    IF list = << >> \/ ~Running(w) THEN w
    ELSE LET n == rebaseSingleBlobCommit(w, failed, parentSha, Head(list), pathToBlob)
         IN Replay_AllOnBase(n, failed, parentSha, Tail(list), pathToBlob)

\* the reduce of rebaseSingleBlobCommits (API.js 756-766): each commit is
\* replayed on the commit made for the one before it
RECURSIVE Replay(_, _, _, _, _)
Replay(w, failed, parentSha, list, pathToBlob) ==
    IF list = << >> \/ ~Running(w) THEN w
    ELSE LET n == rebaseSingleBlobCommit(w, failed, parentSha, Head(list), pathToBlob)
         IN Replay(n, failed, n.made, Tail(list), pathToBlob)

\* a test that takes every commit list that is not empty for one to replay
NeedsRebase_Always(baseSha, list) == list # << >>

\* the test of rebaseSingleBlobCommits (API.js 747)
NeedsRebase(baseSha, list) == list # << >> /\ list[1].parents[1] # baseSha

\* rebaseSingleBlobCommits (API.js 742-772)
rebaseSingleBlobCommits(w, failed, baseSha, list, pathToBlob) ==
    IF NeedsRebase(baseSha, list) THEN Replay(w, failed, baseSha, list, pathToBlob) ELSE w

\* a rebasePullRequest that moves the branch before it writes the metadata
rebasePullRequest_PatchFirst(w, fail, prNumber, branchName, contentKey, metadata, head) ==
    LET path == metadata.objects.entry.path
        w1 == getBranch(w, fail = "getBranch", branch)
        w2 == getPullRequest(w1, fail = "getPullRequestCommits", prNumber)
        baseSha == w.heads[branch]
        list == PullCommits(w.heads[w.pulls[prNumber].head], baseSha)
        finalCommits == assertHead(list, CommitObject(head))
        w3 == IF Running(w2) /\ ~finalCommits.ok THEN Reject(w2, finalCommits.error) ELSE w2
        w4 == rebaseSingleBlobCommits(w3, fail = "rebase", baseSha, finalCommits.commits, path)
        rebasedHead == IF NeedsRebase(baseSha, finalCommits.commits)
                       THEN w4.made ELSE Last(finalCommits.commits).sha
        w5 == patchBranch(w4, fail = "patchBranch", branchName, rebasedHead, TRUE)
    IN storeMetadata(w5, fail = "storeMetadata", contentKey,
                     [metadata EXCEPT !.pr.head = rebasedHead])

\* rebasePullRequest (API.js 700-735); head is the commit just created
rebasePullRequest(w, fail, prNumber, branchName, contentKey, metadata, head) ==
    LET path == metadata.objects.entry.path
        w1 == getBranch(w, fail = "getBranch", branch)
        w2 == getPullRequest(w1, fail = "getPullRequestCommits", prNumber)
        baseSha == w.heads[branch]
        list == PullCommits(w.heads[w.pulls[prNumber].head], baseSha)
        finalCommits == assertHead(list, CommitObject(head))
        w3 == IF Running(w2) /\ ~finalCommits.ok THEN Reject(w2, finalCommits.error) ELSE w2
        w4 == rebaseSingleBlobCommits(w3, fail = "rebase", baseSha, finalCommits.commits, path)
        rebasedHead == IF NeedsRebase(baseSha, finalCommits.commits)
                       THEN w4.made ELSE Last(finalCommits.commits).sha
        w5 == storeMetadata(w4, fail = "storeMetadata", contentKey,
                            [metadata EXCEPT !.pr.head = rebasedHead])
    IN patchBranch(w5, fail = "patchBranch", branchName, rebasedHead, TRUE)

\* editorialWorkflowGit for an entry that is already in the workflow
\* (API.js 535-562, 658-692)
PersistExisting(w0, slug, content, media, hasAssetStore, fail) ==
    LET key == KeyOf(slug)
        branchName == BranchOf(slug)
        entry == EntryFile(slug, content)
        files == MediaFiles(media) \cup {entry}
        mediaFilesList == MediaFilesList(media)
        w1 == request(w0, fail = "uploadBlob")
        w2 == retrieveMetadata(w1, fail = "retrieveMetadata", key)
        metadata == Retrieved(w0, key)
        mediaFilesToRemove ==
            {[path |-> f.path, sha |-> f.sha, skip |-> FALSE, remove |-> TRUE] :
                f \in {g \in metadata.objects.files :
                          \A m \in mediaFilesList : m.path # g.path}}
        fileTree == composeFileTree(files \cup mediaFilesToRemove)
        w3 == getBranch(w2, fail = "getBranch", branchName)
        tip == w0.heads[branchName]
        w4 == request(w3, fail = "updateTree")
        w5 == commit(w4, fail = "commit", Message("commitMessage", {}),
                     updateTree(tip.tree, fileTree), tip)
        sha == w5.made
        pr == IF metadata.pr # NoPR
              THEN [metadata.pr EXCEPT !.head = sha, !.headObject = FALSE]
              ELSE NoPR
        updatedMetadata ==
            [metadata EXCEPT !.pr = pr,
                             !.objects = [entry |-> Stored(entry), files |-> mediaFilesList]]
    IN Resolve(
        IF ~Running(w5) THEN w5
        ELSE IF hasAssetStore
        THEN patchBranch(storeMetadata(w5, fail = "storeMetadata", key, updatedMetadata),
                         fail = "patchBranch", branchName, sha, FALSE)
        ELSE IF pr # NoPR
        THEN rebasePullRequest(w5, fail, pr.number, branchName, key, metadata, sha)
        ELSE IF useOpenAuthoring
        THEN storeMetadata(patchBranch(w5, fail = "patchBranch", branchName, sha, TRUE),
                           fail = "storeMetadata", key, updatedMetadata)
        ELSE storeMetadata(w5, fail = "storeMetadata", key, updatedMetadata))

-----------------------------------------------------------------------------
(* The workflow specification: operations are called one after another *)

\* the requests of each operation that the remote may reject
PersistNewFails == {"none", "uploadBlob", "getBranch", "updateTree", "commit",
                    "createBranch", "createPR", "user", "storeMetadata"}
PersistExistingFails == {"none", "uploadBlob", "retrieveMetadata", "getBranch", "updateTree",
                         "commit", "storeMetadata", "patchBranch", "getPullRequestCommits",
                         "rebase"}
PersistDirectFails == {"none", "uploadBlob", "getBranch", "updateTree", "commit", "patchBranch"}
UpdateStatusFails == {"none", "retrieveMetadata", "getPullRequest", "closePR", "openPR",
                      "createPR", "storeMetadata"}
PublishFails == {"none", "retrieveMetadata", "mergePR", "getBranch", "updateTree", "commit",
                 "patchBranch", "deleteBranch"}
DeleteFails == {"none", "retrieveMetadata", "closePR", "deleteBranch"}
ListFails == {"none", "refs", "pulls", "retrieveMetadata", "getPullRequest",
              "storeMetadata", "closePR", "deleteBranch"}

InitialTree ==
    ("content" :> [mode |-> "040000", type |-> "tree",
                   sha |-> TreeSha("old.md" :> [mode |-> "100644", type |-> "blob",
                                                sha |-> BlobSha(OldBlob)])])

InitialCommit ==
    Commit(Message("Initial commit", {}), InitialTree, << >>, Undefined, Undefined)

MetaPinned ==
    /\ metaRef = NoSha
    /\ metaCommits = << >>
    /\ metaTree0 = EmptyTree
    /\ semCurrent = 0
    /\ semQueue = << >>
    /\ pc = << >>
    /\ args = << >>
    /\ loc = << >>
    /\ metaCache = << >>
    /\ now = 0
    /\ takeOrder = << >>
    /\ enterOrder = << >>
    /\ patchOrder = << >>

\* a repository without workflow entries
EmptyWorld ==
    [heads |-> [n \in BranchNames |->
                    IF n \in {branch, otherBranch} THEN InitialCommit ELSE NoCommit],
     pulls |-> << >>,
     metaFiles |-> [k \in ContentKeys |-> NoMeta],
     semTaken |-> FALSE, sent |-> {},
     made |-> NoCommit, posted |-> << >>, listed |-> {},
     out |-> "running", err |-> "none"]

\* a repository with the base branch only
BareWorld == [EmptyWorld EXCEPT !.heads[otherBranch] = NoCommit]

\* the repository after an earlier session persisted a new entry in the
\* workflow
SeededWorld ==
    [PersistNew(EmptyWorld, <<"a">>, 1, [p \in MediaPaths |-> "absent"], "none")
        EXCEPT !.out = "running"]

\* the repository after the entry was then sent to review
ReviewWorld ==
    [UpdateStatus(SeededWorld, <<"a">>, "pending_review", "none")
        EXCEPT !.out = "running", !.posted = << >>]

\* the repository after the entry was then taken back from review
ClosedWorld ==
    [UpdateStatus(ReviewWorld, <<"a">>, "draft", "none")
        EXCEPT !.out = "running", !.posted = << >>]

InitWorkflow ==
    /\ useOpenAuthoring \in BOOLEAN
    /\ \E w \in {EmptyWorld, SeededWorld} :
        /\ heads = w.heads
        /\ pulls = w.pulls
        /\ metaFiles = w.metaFiles
        /\ semTaken = w.semTaken
        /\ sent = w.sent
    /\ last = NoOp
    /\ opCount = 0
    /\ callArgs = << >>
    /\ callResult = NotCalled
    /\ MetaPinned
    /\ DraftPinned

\* the operation has run to its end: its effects and its outcome are recorded
\* last.again: the call repeats the call before it, which resolved;
\* last.listed: the branches the call returned
Done(w, op, slug, arg) ==
    /\ heads' = w.heads
    /\ pulls' = w.pulls
    /\ metaFiles' = w.metaFiles
    /\ semTaken' = w.semTaken
    /\ sent' = w.sent
    /\ last' = [op |-> op, slug |-> slug, arg |-> arg,
                again |-> last.op = op /\ last.slug = slug /\ last.out = "resolved",
                listed |-> w.listed, out |-> w.out]
    /\ opCount' = opCount + 1
    /\ UNCHANGED <<useOpenAuthoring, metaVars, fnVars, draftVars>>

PersistNewEntry(slug, content, media, fail) ==
    /\ opCount < MaxOps
    /\ Done(PersistNew(World, slug, content, media, fail), "persistNew", slug, "none")

PersistUnpublishedEntry(slug, content, media, hasAssetStore, fail) ==
    /\ opCount < MaxOps
    /\ Done(PersistExisting(World, slug, content, media, hasAssetStore, fail),
            "persistExisting", slug, "none")

PersistPublished(slug, content, media, fail) ==
    /\ opCount < MaxOps
    /\ Done(PersistDirect(World, slug, content, media, fail), "persistDirect", slug, "none")

UpdateUnpublishedEntryStatus(slug, status, fail) ==
    /\ opCount < MaxOps
    /\ Done(UpdateStatus(World, slug, status, fail), "updateStatus", slug, status)

PublishUnpublishedEntry(slug, fail, answer) ==
    /\ opCount < MaxOps
    /\ Done(Publish(World, slug, fail, answer), "publish", slug, answer)

DeleteUnpublishedEntry(slug, fail) ==
    /\ opCount < MaxOps
    /\ Done(Delete(World, slug, fail), "delete", slug, "none")

ListUnpublishedBranches(fail) ==
    /\ opCount < MaxOps
    /\ Done(ListBranches(World, fail), "list", << >>, "none")

\* a maintainer of the origin repository closes, reopens or merges a pull
\* request on the platform
PlatformActs == {"close", "reopen", "merge"}

\* every operation opens one pull request at most
PullNumbers == 1..(MaxOps + 1)

PlatformPullRequest(n, act) ==
    /\ opCount < MaxOps
    /\ n \in DOMAIN pulls
    /\ act = "close" => pulls[n].state = "open"
    /\ act = "reopen" => /\ pulls[n].state = "closed"
                         /\ ~pulls[n].merged
                         /\ heads[pulls[n].head] # NoCommit
    /\ act = "merge" => /\ pulls[n].state = "open"
                        /\ heads[pulls[n].head] # NoCommit
    /\ LET pr == [number |-> n, head |-> heads[pulls[n].head]]
           w == CASE act = "close" -> closePR(World, FALSE, pr)
                  [] act = "reopen" -> openPR(World, FALSE, pr)
                  [] act = "merge" -> mergePR(World, "none", "merged", pr, << >>)
       IN Done(Resolve(w), "platform", << >>, act)

DeleteFile(path, fail) ==
    /\ opCount < MaxOps
    /\ Done(deleteFile(World, path, fail), "deleteFile", path, "none")

\* the call of rebasePullRequest by editorialWorkflowGit (API.js 684-686) for
\* an entry with a recorded pull request: head is the commit made for the new
\* content on the tip read from the branch (664-666); stale: the branch has
\* moved by one commit since that tip was read
RebasePullRequestCall(w0, slug, content, stale, fail) ==
    LET key == KeyOf(slug)
        branchName == BranchOf(slug)
        metadata == Retrieved(w0, key)
        tip == w0.heads[branchName]
        parent == IF stale THEN tip.parents[1] ELSE tip
        w1 == commit(w0, FALSE, Message("commitMessage", {}),
                     createTreeAt(parent.tree, EntryPath(slug), BlobSha(content)), parent)
    IN Resolve(rebasePullRequest(w1, fail, metadata.pr.number, branchName, key,
                                 metadata, w1.made))

RebasePullRequest(slug, content, stale, fail) ==
    /\ opCount < MaxOps
    /\ metaFiles[KeyOf(slug)] # NoMeta
    /\ metaFiles[KeyOf(slug)].pr # NoPR
    /\ heads[BranchOf(slug)] # NoCommit
    /\ stale => heads[BranchOf(slug)].parents # << >>
    /\ Done(RebasePullRequestCall(World, slug, content, stale, fail), "rebasePullRequest", slug,
            IF stale THEN "stale" ELSE "fresh")

\* patchBranch called on a branch that is no workflow branch
PatchBranch(name, force, fail) ==
    /\ opCount < MaxOps
    /\ Done(Resolve(patchBranch(World, fail = "patchBranch", name, heads[branch], force)),
            "patchBranch", name, IF force THEN "force" ELSE "none")

NextWorkflow ==
    \/ \E slug \in Slugs, content \in Contents,
          media \in [MediaPaths -> Uploads], fail \in PersistNewFails :
            PersistNewEntry(slug, content, media, fail)
    \/ \E slug \in Slugs, content \in Contents,
          media \in [MediaPaths -> Uploads], hasAssetStore \in BOOLEAN,
          fail \in PersistExistingFails :
            PersistUnpublishedEntry(slug, content, media, hasAssetStore, fail)
    \/ \E slug \in Slugs, content \in Contents,
          media \in [MediaPaths -> Uploads], fail \in PersistDirectFails :
            PersistPublished(slug, content, media, fail)
    \/ \E slug \in Slugs, status \in Statuses, fail \in UpdateStatusFails :
            UpdateUnpublishedEntryStatus(slug, status, fail)
    \/ \E slug \in Slugs, fail \in PublishFails, answer \in {"merged", "405"} :
            PublishUnpublishedEntry(slug, fail, answer)
    \/ \E slug \in Slugs, fail \in DeleteFails : DeleteUnpublishedEntry(slug, fail)
    \/ \E name \in {branch, otherBranch}, force \in BOOLEAN,
          fail \in {"none", "patchBranch"} :
            PatchBranch(name, force, fail)

SpecWorkflow == InitWorkflow /\ [][NextWorkflow]_vars

-----------------------------------------------------------------------------
(* Claims about the persisting of an entry that is in the workflow *)

\* the commits an operation has created, in the order of their creation
CommitsMade(w) ==
    LET at == {i \in 1..Len(w.posted) : w.posted[i].kind = "commit"}
        nth(k) == CHOOSE i \in at : Cardinality({j \in at : j < i}) = k - 1
    IN [k \in 1..Cardinality(at) |-> w.posted[nth(k)].sha]

\* C26: when an entry that is in the workflow is persisted, the tree of the
\* new commit holds no media path that the stored objects.files records and
\* the new list lacks, it holds every path of the new list that the branch
\* held or that was uploaded with the call, and the parent of the new commit
\* is the tip of the workflow branch.
C26_MediaDiffOnBranchTip ==
    [][\A slug \in Slugs, content \in Contents, media \in [MediaPaths -> Uploads],
          hasAssetStore \in BOOLEAN, fail \in PersistExistingFails :
            ( /\ last'.op = "persistExisting"
              /\ PersistUnpublishedEntry(slug, content, media, hasAssetStore, fail)
              /\ CommitsMade(PersistExisting(World, slug, content, media,
                                               hasAssetStore, fail)) # << >> )
            => LET made == CommitsMade(PersistExisting(World, slug, content, media,
                                                         hasAssetStore, fail))[1]
                   tip == heads[BranchOf(slug)]
                   recorded == {f.path : f \in Retrieved(World, KeyOf(slug)).objects.files}
                   listed == {m.path : m \in MediaFilesList(media)}
               IN /\ \A q \in recorded \ listed : ShaAt(made.tree, q) = NullSha
                  /\ \A q \in listed :
                        IF media[q] = "new" THEN ShaAt(made.tree, q) = BlobSha(MediaBlob)
                        ELSE ShaAt(made.tree, q) = ShaAt(tip.tree, q)
                  /\ ShaAt(made.tree, EntryPath(slug)) = BlobSha(content)
                  /\ made.parents = <<tip>>]_vars

\* C28: whenever the persisting of an entry that is in the workflow
\* resolves, with an asset store or without, with a recorded pull request or
\* without, in either mode, the stored metadata records the new entry blob in
\* objects.entry.sha and the new list of media files in objects.files.
C28_ObjectsFollowPersist ==
    [][\A slug \in Slugs, content \in Contents, media \in [MediaPaths -> Uploads],
          hasAssetStore \in BOOLEAN, fail \in PersistExistingFails :
            ( /\ last'.op = "persistExisting"
              /\ last'.out = "resolved"
              /\ PersistUnpublishedEntry(slug, content, media, hasAssetStore, fail) )
            => /\ metaFiles'[KeyOf(slug)].objects.entry.sha = BlobSha(content)
               /\ metaFiles'[KeyOf(slug)].objects.files = MediaFilesList(media)]_vars

\* C29: whenever the persisting of an entry that is in the workflow
\* resolves, in every mode, the workflow branch points at a commit whose tree
\* holds the new entry blob at the path of the entry, and the commit made for
\* the change is on the branch: it is the tip or an ancestor of the tip.
C29_BranchFollowsPersist ==
    [][\A slug \in Slugs, content \in Contents, media \in [MediaPaths -> Uploads],
          hasAssetStore \in BOOLEAN, fail \in PersistExistingFails :
            ( /\ last'.op = "persistExisting"
              /\ last'.out = "resolved"
              /\ PersistUnpublishedEntry(slug, content, media, hasAssetStore, fail) )
            => /\ heads'[BranchOf(slug)] # NoCommit
               /\ ShaAt(heads'[BranchOf(slug)].tree, EntryPath(slug)) = BlobSha(content)
               /\ Ancestor(CommitsMade(PersistExisting(World, slug, content, media,
                                                       hasAssetStore, fail))[1],
                           heads'[BranchOf(slug)])]_vars

-----------------------------------------------------------------------------
(* The specification of the published files: entries are persisted on the
   base branch without the workflow, and files of the base branch are
   deleted *)

DeleteFileFails == {"none", "getFileSha", "deleteContents"}

PublishedPaths == {EntryPath(<<"a">>), <<"content", "old.md">>, <<"static", "x.png">>}

InitPublished ==
    /\ useOpenAuthoring \in BOOLEAN
    /\ \E w \in {EmptyWorld, SeededWorld} :
        /\ heads = w.heads
        /\ pulls = w.pulls
        /\ metaFiles = w.metaFiles
        /\ semTaken = w.semTaken
        /\ sent = w.sent
    /\ last = NoOp
    /\ opCount = 0
    /\ callArgs = << >>
    /\ callResult = NotCalled
    /\ MetaPinned
    /\ DraftPinned

NextPublished ==
    \/ \E slug \in Slugs, content \in Contents,
          media \in [MediaPaths -> Uploads], fail \in PersistDirectFails :
            PersistPublished(slug, content, media, fail)
    \/ \E path \in PublishedPaths, fail \in DeleteFileFails : DeleteFile(path, fail)

SpecPublished == InitPublished /\ [][NextPublished]_vars

\* C23: in open-authoring mode deleteFile rejects with the permission error
\* before any request is sent: the outcome is the same whatever the remote
\* would answer, and no ref, tree, commit or file of the remote changes.
C23_NoDeleteInFork ==
    [][\A path \in PublishedPaths, fail \in DeleteFileFails :
            ( /\ useOpenAuthoring
              /\ last'.op = "deleteFile"
              /\ DeleteFile(path, fail) )
            => /\ last'.out = "rejected"
               /\ deleteFile(World, path, fail).err = PermissionError
               /\ heads' = heads
               /\ pulls' = pulls
               /\ metaFiles' = metaFiles
               /\ sent' = sent]_vars

\* in open-authoring mode the deletion of a file that is on the base branch
\* was asked for and rejected
C23_Witness ==
    /\ useOpenAuthoring
    /\ last.op = "deleteFile"
    /\ last.out = "rejected"
    /\ ShaAt(heads[branch].tree, last.slug) # NullSha

-----------------------------------------------------------------------------
(* The specification of the rebase of a pull request: entries are published
   on the base branch without the workflow, and the pull request of an entry
   in the workflow is rebased for new content *)

RebaseFails == {"none", "getBranch", "getPullRequestCommits", "rebase", "storeMetadata",
                "patchBranch"}

InitPull ==
    /\ useOpenAuthoring \in BOOLEAN
    /\ \E w \in {SeededWorld, ReviewWorld} :
        /\ heads = w.heads
        /\ pulls = w.pulls
        /\ metaFiles = w.metaFiles
        /\ semTaken = w.semTaken
        /\ sent = w.sent
    /\ last = NoOp
    /\ opCount = 0
    /\ callArgs = << >>
    /\ callResult = NotCalled
    /\ MetaPinned
    /\ DraftPinned

NextPull ==
    \/ \E slug \in Slugs, content \in Contents,
          media \in [MediaPaths -> Uploads], fail \in PersistDirectFails :
            PersistPublished(slug, content, media, fail)
    \/ \E slug \in Slugs, content \in Contents, stale \in BOOLEAN, fail \in RebaseFails :
            RebasePullRequest(slug, content, stale, fail)

SpecPull == InitPull /\ [][NextPull]_vars

DriftError == "Editorial workflow branch changed unexpectedly."

\* C24: when rebasePullRequest resolves, the pr.head of the metadata and the
\* ref of the workflow branch are one commit, the rebased head: it descends
\* from the tip of the base branch, carries the entry blob of the head given
\* and was set by a forced patch.  The metadata is written before the branch
\* is patched: the branch never moves while the metadata is as before.  When
\* assertHead throws the drift error neither is changed.
C24_RebaseStoresThenPatches ==
    [][\A slug \in Slugs, content \in Contents, stale \in BOOLEAN, fail \in RebaseFails :
            ( /\ last'.op = "rebasePullRequest"
              /\ RebasePullRequest(slug, content, stale, fail) )
            => LET key == KeyOf(slug)
                   branchName == BranchOf(slug)
               IN /\ last'.out = "resolved"
                     => /\ metaFiles'[key].pr.head = heads'[branchName]
                        /\ Ancestor(heads[branch], heads'[branchName])
                        /\ ShaAt(heads'[branchName].tree, EntryPath(slug)) = BlobSha(content)
                        /\ [name |-> branchName, force |-> TRUE] \in sent'
                  /\ heads'[branchName] # heads[branchName]
                     => metaFiles'[key].pr.head = heads'[branchName]
                  /\ RebasePullRequestCall(World, slug, content, stale, fail).err = DriftError
                     => /\ last'.out = "rejected"
                        /\ heads' = heads
                        /\ metaFiles' = metaFiles
                        /\ sent' = sent]_vars

\* a rebase resolved after the base branch had moved: commits were replayed
C24_Witness ==
    /\ last.op = "rebasePullRequest"
    /\ last.out = "resolved"
    /\ heads[branch] # InitialCommit
    /\ Ancestor(heads[branch], heads[BranchOf(last.slug)])

\* a rebase was refused for a branch that had moved
C24_WitnessDrift ==
    /\ last.op = "rebasePullRequest"
    /\ last.arg = "stale"
    /\ last.out = "rejected"
    /\ \E n \in 1..Len(pulls) : pulls[n].head = BranchOf(last.slug)

-----------------------------------------------------------------------------
(* The review specification: entries are created in the workflow, sent to
   review, taken back, published, deleted and listed, and the maintainers act
   on the pull requests *)

InitReview ==
    /\ useOpenAuthoring \in BOOLEAN
    /\ \E w \in {BareWorld, SeededWorld, ReviewWorld, ClosedWorld} :
        /\ heads = w.heads
        /\ pulls = w.pulls
        /\ metaFiles = w.metaFiles
        /\ semTaken = w.semTaken
        /\ sent = w.sent
    /\ last = NoOp
    /\ opCount = 0
    /\ callArgs = << >>
    /\ callResult = NotCalled
    /\ MetaPinned
    /\ DraftPinned

NextReview ==
    \/ \E slug \in Slugs, content \in Contents,
          media \in [MediaPaths -> Uploads], fail \in PersistNewFails :
            PersistNewEntry(slug, content, media, fail)
    \/ \E slug \in Slugs, status \in Statuses, fail \in UpdateStatusFails :
            UpdateUnpublishedEntryStatus(slug, status, fail)
    \/ \E slug \in Slugs, fail \in PublishFails, answer \in {"merged", "405"} :
            PublishUnpublishedEntry(slug, fail, answer)
    \/ \E slug \in Slugs, fail \in DeleteFails : DeleteUnpublishedEntry(slug, fail)
    \/ \E fail \in ListFails : ListUnpublishedBranches(fail)
    \/ \E n \in PullNumbers, act \in PlatformActs : PlatformPullRequest(n, act)

SpecReview == InitReview /\ [][NextReview]_vars

-----------------------------------------------------------------------------
(* Claims about the workflow operations, checked under SpecWorkflow *)

CmsSlash == <<"c", "m", "s", "/">>

\* C5: after any sequence of workflow operations, resolved or rejected
\* partway, the branch cms/<contentKey> exists if and only if stored
\* workflow metadata with that content key exists.
C5_BranchIffMetadata ==
    \A slug \in Slugs :
        heads[BranchOf(slug)] # NoCommit <=> metaFiles[KeyOf(slug)] # NoMeta

\* C6: when persistFiles of a new entry with useWorkflow resolves,
\* retrieveMetadata(contentKey) returns metadata with the initial workflow
\* status and objects.entry = {entry.path, the sha of the uploaded entry blob},
\* and the branch cms/<contentKey> exists and points at a commit whose tree
\* holds entry.path at that sha.
C6_NewEntryPersisted ==
    [][\A slug \in Slugs, content \in Contents, media \in [MediaPaths -> Uploads],
          fail \in PersistNewFails :
            ( /\ last'.op = "persistNew"
              /\ last'.out = "resolved"
              /\ PersistNewEntry(slug, content, media, fail) )
            => LET after == World'
                   key == KeyOf(slug)
                   metadata == Retrieved(after, key)
                   tip == after.heads[BranchOf(slug)]
               IN /\ Running(retrieveMetadata(after, FALSE, key))
                  /\ metadata.status = initialWorkflowStatus
                  /\ metadata.objects.entry =
                        [path |-> EntryPath(slug), sha |-> BlobSha(content)]
                  /\ tip # NoCommit
                  /\ ShaAt(tip.tree, EntryPath(slug)) = BlobSha(content)]_vars

\* a new entry was persisted in the workflow and the call resolved
C6_Witness ==
    /\ last.op = "persistNew"
    /\ last.out = "resolved"
    /\ metaFiles[KeyOf(last.slug)] # NoMeta
    /\ heads[BranchOf(last.slug)] # NoCommit
    /\ ShaAt(heads[BranchOf(last.slug)].tree, EntryPath(last.slug))
          = metaFiles[KeyOf(last.slug)].objects.entry.sha

\* C7: deleteUnpublishedEntry called again for the same (collection, slug)
\* right after a call that resolved, with no request rejected for a reason
\* of the remote's own, resolves too: the branch is already absent, the
\* remote answers 'Reference does not exist' to the branch deletion, the
\* answer is turned into success and the branch stays absent.
C7_DeleteIdempotent ==
    [][\A slug \in Slugs :
            ( /\ last.op = "delete"
              /\ last.slug = slug
              /\ last.out = "resolved"
              /\ DeleteUnpublishedEntry(slug, "none") )
            => /\ heads[BranchOf(slug)] = NoCommit
               /\ deleteBranch(World, FALSE, BranchOf(slug)).err = "Reference does not exist"
               /\ last'.out = "resolved"
               /\ heads'[BranchOf(slug)] = NoCommit]_vars

\* an entry of the workflow was deleted twice in a row and both calls resolved
C7_Witness ==
    /\ last.op = "delete"
    /\ last.again
    /\ last.out = "resolved"
    /\ opCount = 2
    /\ metaFiles[KeyOf(last.slug)] # NoMeta
    /\ heads[BranchOf(last.slug)] = NoCommit

\* C8: when the merge request of mergePR is answered 405, forceMergePR runs:
\* unless a request of the fallback is rejected, the base branch is moved by
\* a patch without force to a new commit whose parent is the former tip of
\* the base branch, whose tree holds every object of objects.files and
\* objects.entry and whose message names the path of each; the caller does
\* not see the 405.
C8_ForceMerge ==
    [][\A slug \in Slugs, fail \in PublishFails :
            LET metadata == Retrieved(World, KeyOf(slug))
                w == Publish(World, slug, fail, "405")
            IN ( /\ last'.op = "publish"
                 /\ last'.arg = "405"
                 /\ PublishUnpublishedEntry(slug, fail, "405")
                 /\ fail \notin {"retrieveMetadata", "mergePR"}
                 /\ metadata # NoMeta
                 /\ metadata.pr # NoPR
                 /\ metadata.pr.number \in 1..Len(pulls) )
               => /\ w.err # "405"
                  /\ IF fail \in {"getBranch", "updateTree", "commit", "patchBranch"}
                     THEN last'.out = "rejected" /\ heads'[branch] = heads[branch]
                     ELSE /\ heads'[branch].parents = <<heads[branch]>>
                          /\ [name |-> branch, force |-> FALSE] \in sent'
                          /\ \A f \in metadata.objects.files \cup {metadata.objects.entry} :
                                /\ ShaAt(heads'[branch].tree, f.path) = f.sha
                                /\ f.path \in heads'[branch].message.paths
                          /\ fail = "none" /\ heads[BranchOf(slug)] # NoCommit
                                => last'.out = "resolved"]_vars

\* a publish whose merge request was answered 405 resolved, and the base
\* branch points at the force-merge commit
C8_Witness ==
    /\ last.op = "publish"
    /\ last.arg = "405"
    /\ last.out = "resolved"
    /\ heads[branch].message.text = "Force merge of"
    /\ heads[branch].message.paths # {}
    /\ [name |-> branch, force |-> FALSE] \in sent

\* C9: no forced patch is ever sent for a heads branch whose name does not
\* start with 'cms/'; the base branch is only patched without force; and
\* patchBranch with force on a name outside 'cms/' throws before any request
\* is sent.
C9_ForcedPatchOnlyOnCms ==
    /\ [](\A p \in sent : /\ p.force => startsWith(p.name, CmsSlash)
                          /\ p.name = branch => ~p.force)
    /\ [][\A name \in {branch, otherBranch}, fail \in {"none", "patchBranch"} :
            PatchBranch(name, TRUE, fail) /\ ~startsWith(name, CmsSlash)
                => sent' = sent /\ heads' = heads /\ last'.out = "rejected"]_vars

\* a forced patch of a workflow branch was sent, and a forced patchBranch of
\* a branch outside cms/ was then rejected
C9_Witness ==
    /\ \E p \in sent : p.force /\ startsWith(p.name, CmsSlash)
    /\ last.op = "patchBranch"
    /\ last.arg = "force"
    /\ last.slug = otherBranch
    /\ last.out = "rejected"

-----------------------------------------------------------------------------
(* Claims about the entries in review, checked under SpecReview *)

\* the entry's branch exists and the pull request its metadata records is
\* closed and merged
MergedEntry(slug) ==
    /\ heads[BranchOf(slug)] # NoCommit
    /\ metaFiles[KeyOf(slug)] # NoMeta
    /\ metaFiles[KeyOf(slug)].pr # NoPR
    /\ pulls[metaFiles[KeyOf(slug)].pr.number].state = "closed"
    /\ pulls[metaFiles[KeyOf(slug)].pr.number].merged

\* C15: in fork mode, when listUnpublishedBranches enumerates a workflow
\* branch whose recorded pull request is closed and merged, the branch that
\* is deleted is that branch cms/<contentKey> and no other ref, and the
\* branch is not in the returned list.
C15_MergedBranchDeleted ==
    [][\A slug \in Slugs :
            ( /\ useOpenAuthoring
              /\ last'.op = "list"
              /\ MergedEntry(slug)
              /\ ListUnpublishedBranches("none") )
            => /\ heads'[BranchOf(slug)] = NoCommit
               /\ \A n \in BranchNames \ {BranchOf(slug)} : heads'[n] = heads[n]
               /\ REFS_HEADS \o BranchOf(slug) \notin last'.listed]_vars

\* the status that agrees with the pull request the metadata records
ExpectedStatus(metadata, pullrequests) ==
    IF metadata.pr = NoPR THEN "draft"
    ELSE IF pullrequests[metadata.pr.number].state = "open" THEN "pending_review"
    ELSE "draft"

C17_StatusChangesPR ==
    [][\A slug \in Slugs, status \in {"draft", "pending_review"}, fail \in UpdateStatusFails :
            LET key == KeyOf(slug)
                metadata == metaFiles[key]
                stored == metaFiles'[key]
                written == last'.out = "resolved"
            IN ( /\ useOpenAuthoring
                 /\ last'.op = "updateStatus"
                 /\ last'.arg = status
                 /\ UpdateUnpublishedEntryStatus(slug, status, fail)
                 /\ metadata # NoMeta
                 /\ fail \notin {"retrieveMetadata", "getPullRequest"} )
               => /\ ~written => stored = metadata
                  /\ IF metadata.pr # NoPR
                     THEN LET n == metadata.pr.number
                              changes == \/ pulls[n].state = "open" /\ status = "draft"
                                         \/ pulls[n].state = "closed" /\ status = "pending_review"
                              refused == \/ fail = (IF status = "draft" THEN "closePR" ELSE "openPR")
                                         \/ pulls[n].merged
                          IN /\ Len(pulls') = Len(pulls)
                             /\ \A k \in DOMAIN pulls : k # n => pulls'[k] = pulls[k]
                             /\ IF changes /\ ~refused
                                THEN /\ pulls'[n] = [pulls[n] EXCEPT !.state =
                                            IF status = "draft" THEN "closed" ELSE "open"]
                                     /\ written => stored = [metadata EXCEPT !.status = status]
                                ELSE /\ pulls' = pulls
                                     /\ stored = metadata
                                     /\ changes => last'.out = "rejected"
                     ELSE IF status = "pending_review"
                     THEN LET refused == \/ fail = "createPR"
                                         \/ heads[BranchOf(slug)] = NoCommit
                                         \/ \E k \in DOMAIN pulls :
                                                /\ pulls[k].head = BranchOf(slug)
                                                /\ pulls[k].state = "open"
                          IN IF refused
                             THEN pulls' = pulls /\ stored = metadata /\ last'.out = "rejected"
                             ELSE /\ pulls' = Append(pulls, [head |-> BranchOf(slug),
                                                            state |-> "open", merged |-> FALSE])
                                  /\ written =>
                                        /\ stored.status = "pending_review"
                                        /\ stored.pr.number = Len(pulls')
                                        /\ stored.pr.head = heads[BranchOf(slug)]
                                        /\ [stored EXCEPT !.pr = NoPR, !.status = "draft"]
                                              = [metadata EXCEPT !.status = "draft"]
                     ELSE pulls' = pulls /\ stored = metadata]_vars

\* in fork mode a status update resolved, and the entry's recorded pull
\* request and its stored status are now those asked for
C17_Witness ==
    /\ useOpenAuthoring
    /\ last.op = "updateStatus"
    /\ last.out = "resolved"
    /\ metaFiles[KeyOf(last.slug)].pr # NoPR
    /\ metaFiles[KeyOf(last.slug)].status = last.arg
    /\ pulls[metaFiles[KeyOf(last.slug)].pr.number].state
          = (IF last.arg = "draft" THEN "closed" ELSE "open")
    /\ opCount = 2
    /\ Len(pulls) = 1

\* C18: in fork mode updateUnpublishedEntryStatus(collection, slug,
\* 'pending_publish') always rejects and leaves the stored metadata, the pull
\* requests and every branch ref as they were; no entry ever has the stored
\* status pending_publish in fork mode.
C18_NoPendingPublishInFork ==
    /\ [](useOpenAuthoring =>
            \A key \in DOMAIN metaFiles :
                metaFiles[key] # NoMeta => metaFiles[key].status # "pending_publish")
    /\ [][\A slug \in Slugs, fail \in UpdateStatusFails :
            ( /\ useOpenAuthoring
              /\ last'.op = "updateStatus"
              /\ last'.arg = "pending_publish"
              /\ UpdateUnpublishedEntryStatus(slug, "pending_publish", fail) )
            => /\ last'.out = "rejected"
               /\ metaFiles' = metaFiles
               /\ pulls' = pulls
               /\ heads' = heads]_vars

\* in fork mode pending_publish was asked for an entry of the workflow that
\* is in review, and the call was rejected
C18_Witness ==
    /\ useOpenAuthoring
    /\ last.op = "updateStatus"
    /\ last.arg = "pending_publish"
    /\ last.out = "rejected"
    /\ metaFiles[KeyOf(last.slug)] # NoMeta
    /\ metaFiles[KeyOf(last.slug)].status = "pending_review"
    /\ ~semTaken

\* C19: publishUnpublishedEntry deletes the workflow branch only after the
\* merge, by the platform or by the force-merge fallback, has succeeded: when
\* the merge rejects, the base branch has not moved, the branch is not
\* deleted and the call rejects; when the call resolves, the base branch has
\* been advanced by the merge and the branch cms/<contentKey> is gone.
C19_DeleteAfterMerge ==
    [][\A slug \in Slugs, fail \in PublishFails, answer \in {"merged", "405"} :
            ( /\ last'.op = "publish"
              /\ last'.arg = answer
              /\ PublishUnpublishedEntry(slug, fail, answer) )
            => /\ heads'[branch] = heads[branch] =>
                    /\ last'.out = "rejected"
                    /\ heads'[BranchOf(slug)] = heads[BranchOf(slug)]
               /\ last'.out = "resolved" =>
                    /\ heads'[branch] # heads[branch]
                    /\ heads'[branch].parents[1] = heads[branch]
                    /\ heads[BranchOf(slug)] # NoCommit
                    /\ heads'[BranchOf(slug)] = NoCommit
               /\ heads'[BranchOf(slug)] # heads[BranchOf(slug)] =>
                    /\ heads'[branch] # heads[branch]
                    /\ last'.out = "resolved"]_vars

\* a publish resolved: the base branch has moved on and the entry's branch is
\* gone
C19_Witness ==
    /\ last.op = "publish"
    /\ last.out = "resolved"
    /\ heads[BranchOf(last.slug)] = NoCommit
    /\ metaFiles[KeyOf(last.slug)] # NoMeta
    /\ heads[branch] # InitialCommit
    /\ heads[branch].parents[1] = InitialCommit

\* C30: in open-authoring mode, whenever updateUnpublishedEntryStatus resolves
\* for the status draft or pending_review, the stored status of the entry is
\* that status, whatever status was stored, whether a pull request is
\* recorded, and whether the recorded pull request is open or closed.
C30_ForkStatusStored ==
    [][\A slug \in Slugs, status \in {"draft", "pending_review"}, fail \in UpdateStatusFails :
            ( /\ useOpenAuthoring
              /\ last'.op = "updateStatus"
              /\ last'.out = "resolved"
              /\ UpdateUnpublishedEntryStatus(slug, status, fail) )
            => metaFiles'[KeyOf(slug)].status = status]_vars

\* the branches under the prefix that are the head of an open pull request
OpenBranches ==
    {b \in BranchNames :
        /\ heads[b] # NoCommit
        /\ startsWith(b, CMS_BRANCH_PREFIX)
        /\ \E n \in DOMAIN pulls : pulls[n].head = b /\ pulls[n].state = "open"}

\* C20: outside fork mode listUnpublishedBranches returns exactly the refs
\* under refs/heads/cms whose branch is the head of an open pull request
\* against the base branch: a branch whose pull request is merged, closed or
\* missing is left out; and when the remote answers the ref listing with 404,
\* the list is empty and the call resolves.
C20_OnlyOpenPRs ==
    [][\A fail \in ListFails :
            ( /\ ~useOpenAuthoring
              /\ last'.op = "list"
              /\ ListUnpublishedBranches(fail) )
            => /\ heads' = heads /\ pulls' = pulls /\ metaFiles' = metaFiles
               /\ fail \notin {"refs", "pulls"} =>
                    /\ last'.out = "resolved"
                    /\ last'.listed = {REFS_HEADS \o b : b \in OpenBranches}
               /\ (fail # "refs" /\ \A b \in BranchNames :
                                        heads[b] # NoCommit => ~startsWith(b, CMS_BRANCH_PREFIX))
                    => last'.out = "resolved" /\ last'.listed = {}]_vars

\* outside fork mode a listing returned the branch of an entry and left out
\* a branch under the prefix that has no pull request
C20_Witness ==
    /\ ~useOpenAuthoring
    /\ last.op = "list"
    /\ last.out = "resolved"
    /\ last.listed = {REFS_HEADS \o BranchOf(<<"a">>)}
    /\ heads[otherBranch] # NoCommit

-----------------------------------------------------------------------------
(* assertHead applied once to a commit list and a head, SpecHead *)

\* commits as the remote returns them: the root commit of the repository, a
\* chain of two commits on it and a second child of the root
HeadCommits ==
    LET c0 == InitialCommit
        c1 == Commit(Message("commitMessage", {}), InitialTree, <<c0>>, Undefined, Undefined)
        c2 == Commit(Message("commitMessage", {}), InitialTree, <<c1>>, Undefined, Undefined)
        d1 == Commit(Message("other", {}), InitialTree, <<c0>>, Undefined, Undefined)
    IN {CommitObject(c) : c \in {c0, c1, c2, d1}}

HeadLists == UNION {[1..n -> HeadCommits] : n \in 0..MaxList}

WorkflowPinned ==
    /\ useOpenAuthoring = FALSE
    /\ heads = << >>
    /\ pulls = << >>
    /\ metaFiles = << >>
    /\ semTaken = FALSE
    /\ sent = {}
    /\ last = NoOp
    /\ opCount = 0

InitHead ==
    /\ callArgs \in [commits : HeadLists, headToAssert : HeadCommits]
    /\ callResult = NotCalled
    /\ WorkflowPinned
    /\ MetaPinned
    /\ DraftPinned

\* this.assertHead(commits, headToAssert) is called (API.js 704-707, 827-838)
CallAssertHead ==
    /\ callResult = NotCalled
    /\ callResult' = assertHead(callArgs.commits, callArgs.headToAssert)
    /\ UNCHANGED <<callArgs, metaVars, wfVars, draftVars>>

NextHead == CallAssertHead

SpecHead == InitHead /\ [][NextHead]_vars

\* C10: assertHead(commits, headToAssert) returns commits unchanged when
\* headToAssert.sha is the sha of the last commit, returns commits with
\* headToAssert appended when headToAssert.parents[0].sha is the sha of the
\* last commit, and throws 'Editorial workflow branch changed unexpectedly.'
\* in every other case; the commits given are never dropped or reordered.
C10_AssertHeadCases ==
    callResult # NotCalled =>
        LET commits == callArgs.commits
            headToAssert == callArgs.headToAssert
            isLast == commits # << >> /\ headToAssert.sha = Last(commits).sha
            isChild == /\ commits # << >>
                       /\ headToAssert.parents # << >>
                       /\ headToAssert.parents[1] = Last(commits).sha
        IN /\ isLast => callResult = Returned(commits)
           /\ isChild => callResult = Returned(Append(commits, headToAssert))
           /\ ~isLast /\ ~isChild =>
                callResult = Threw("Editorial workflow branch changed unexpectedly.")
           /\ callResult.ok => SubSeq(callResult.commits, 1, Len(commits)) = commits

-----------------------------------------------------------------------------
(* rebaseSingleBlobCommits applied once, SpecRebase *)


RebasePath == EntryPath(<<"a">>)

\* the base branch: its first commit, and a commit on it that adds another
\* entry
RebaseBases ==
    LET b0 == InitialCommit
        b1 == Commit(Message("commitMessage", {}),
                     createTreeAt(InitialTree, EntryPath(<<"b">>), BlobSha(2)),
                     <<b0>>, Undefined, Undefined)
    IN {b0, b1}

\* commits of a workflow branch: the entry persisted on the first base
\* commit, a later version of it by another author, the entry persisted with
\* a media file, and the entry persisted on the second base commit
RebaseCommits ==
    LET b0 == InitialCommit
        b1 == CHOOSE b \in RebaseBases : b # b0
        withEntry(tree, content) == createTreeAt(tree, RebasePath, BlobSha(content))
        c1 == Commit(Message("commitMessage", {}), withEntry(b0.tree, 1), <<b0>>,
                     Undefined, Undefined)
        c2 == Commit(Message("second", {}), withEntry(c1.tree, 2), <<c1>>, "other", "other")
        m1 == Commit(Message("commitMessage", {}),
                     createTreeAt(withEntry(b0.tree, 1), <<"static", "x.png">>,
                                  BlobSha(MediaBlob)),
                     <<b0>>, Undefined, Undefined)
        e1 == Commit(Message("commitMessage", {}), withEntry(b1.tree, 2), <<b1>>,
                     Undefined, Undefined)
    IN {CommitObject(c) : c \in {c1, c2, m1, e1}}

RebaseLists == UNION {[1..n -> RebaseCommits] : n \in 0..MaxList}

\* what one call of rebaseSingleBlobCommits creates on the remote and returns
RebaseCall(baseCommit, commits, pathToBlob, failed) ==
    LET w == Resolve(rebaseSingleBlobCommits(EmptyWorld, failed, baseCommit.sha,
                                             commits, pathToBlob))
    IN [out |-> w.out, posted |-> w.posted,
        returned |-> IF w.out # "resolved" THEN Nothing
                     ELSE IF NeedsRebase(baseCommit.sha, commits) THEN CommitObject(w.made)
                     ELSE IF commits = << >> THEN Nothing
                     ELSE Last(commits)]

InitRebase ==
    /\ callArgs \in [baseCommit : {CommitObject(b) : b \in RebaseBases},
                     commits : RebaseLists, pathToBlob : {RebasePath},
                     failed : BOOLEAN]
    /\ callResult = NotCalled
    /\ WorkflowPinned
    /\ MetaPinned
    /\ DraftPinned

\* this.rebaseSingleBlobCommits(baseCommit, commits, path) is called
\* (API.js 720, 742-772)
CallRebase ==
    /\ callResult = NotCalled
    /\ callResult' = RebaseCall(callArgs.baseCommit, callArgs.commits,
                                callArgs.pathToBlob, callArgs.failed)
    /\ UNCHANGED <<callArgs, metaVars, wfVars, draftVars>>

NextRebase == CallRebase

SpecRebase == InitRebase /\ [][NextRebase]_vars

\* the paths of the blobs of a tree
RECURSIVE BlobPaths(_)
BlobPaths(tree) ==
    UNION {IF tree[seg].type = "tree"
           THEN {<<seg>> \o q : q \in BlobPaths(getTree(tree[seg].sha))}
           ELSE {<<seg>>} : seg \in DOMAIN tree}

\* the commits a call created, in the order it created them
CommitsPosted == SelectSeq(callResult.posted, LAMBDA o : o.kind = "commit")

Replayed ==
    /\ callResult # NotCalled
    /\ callResult.out = "resolved"
    /\ callArgs.commits # << >>
    /\ callArgs.commits[1].parents[1] # callArgs.baseCommit.sha

\* C11: rebaseSingleBlobCommits with an empty commit list, or with
\* commits[0].parents[0].sha equal to baseCommit.sha, creates no tree and no
\* commit on the remote and returns the last commit of the list as it is.
C11_NoRebaseNeeded ==
    callResult # NotCalled =>
        LET commits == callArgs.commits
        IN (commits = << >> \/ commits[1].parents[1] = callArgs.baseCommit.sha)
           => /\ callResult.out = "resolved"
              /\ callResult.posted = << >>
              /\ callResult.returned = IF commits = << >> THEN Nothing ELSE Last(commits)

\* a list of two commits whose first is on the base already was handed over
C11_Witness ==
    /\ callResult # NotCalled
    /\ Len(callArgs.commits) = 2
    /\ callArgs.commits[1].parents[1] = callArgs.baseCommit.sha
    /\ callResult.returned = callArgs.commits[2]
    /\ callResult.posted = << >>

\* C12: given N >= 1 commits whose first parent is not the base, a call that
\* resolves has created exactly N commits, in the order of the originals:
\* the i-th has one parent (the base for the first, the (i-1)-th after),
\* the message, author and committer of the i-th original and, at
\* pathToBlob, the blob of the i-th original; the N-th is returned.
C12_ReplayedInOrder ==
    Replayed =>
        LET commits == callArgs.commits
            made == CommitsPosted
        IN /\ Len(made) = Len(commits)
           /\ \A i \in 1..Len(commits) :
                /\ made[i].sha.parents =
                      <<IF i = 1 THEN callArgs.baseCommit.sha ELSE made[i - 1].sha>>
                /\ made[i].sha.message = commits[i].message
                /\ made[i].sha.author = commits[i].author
                /\ made[i].sha.committer = commits[i].committer
                /\ ShaAt(made[i].sha.tree, callArgs.pathToBlob)
                      = ShaAt(commits[i].tree, callArgs.pathToBlob)
           /\ callResult.returned = CommitObject(made[Len(commits)].sha)

\* two commits, the second by another author, were replayed on a base they
\* were not on
C12_Witness ==
    /\ Replayed
    /\ Len(callArgs.commits) = 2
    /\ Len(CommitsPosted) = 2
    /\ callArgs.commits[2].author = "other"
    /\ callArgs.commits[1] # callArgs.commits[2]

\* C13 as stated: the tree of every replayed commit is the tree of the
\* original commit at every path other than pathToBlob.
C13_TreeOfOriginal ==
    Replayed =>
        \A i \in 1..Len(callArgs.commits) :
            LET new == CommitsPosted[i].sha.tree
                old == callArgs.commits[i].tree
            IN \A q \in (BlobPaths(new) \cup BlobPaths(old)) \ {callArgs.pathToBlob} :
                    ShaAt(new, q) = ShaAt(old, q)

\* C13 as amended: the tree of every replayed commit is, at every path other
\* than pathToBlob, the tree of its new parent: the base commit for the
\* first, the commit replayed before it for the others.
C13_TreeOfNewParent ==
    Replayed =>
        \A i \in 1..Len(callArgs.commits) :
            LET new == CommitsPosted[i].sha.tree
                parent == IF i = 1 THEN callArgs.baseCommit.tree
                          ELSE CommitsPosted[i - 1].sha.tree
            IN \A q \in (BlobPaths(new) \cup BlobPaths(parent)) \ {callArgs.pathToBlob} :
                    ShaAt(new, q) = ShaAt(parent, q)

\* a commit was replayed on a base that holds an entry the original lacks
C13_Witness ==
    /\ Replayed
    /\ \E q \in BlobPaths(callArgs.baseCommit.tree) \ {callArgs.pathToBlob} :
            /\ ShaAt(callArgs.commits[1].tree, q) = NullSha
            /\ ShaAt(CommitsPosted[1].sha.tree, q) # NullSha

-----------------------------------------------------------------------------
(* The key and branch scheme in open-authoring mode, SpecKey *)

NameChars == {"a", "p", "-"}

KeyNames == UNION {[1..n -> NameChars] : n \in 1..MaxName}

InitKey ==
    /\ callArgs \in [collectionName : KeyNames, slug : KeyNames]
    /\ callResult = NotCalled
    /\ useOpenAuthoring = TRUE
    /\ heads = << >>
    /\ pulls = << >>
    /\ metaFiles = << >>
    /\ semTaken = FALSE
    /\ sent = {}
    /\ last = NoOp
    /\ opCount = 0
    /\ MetaPinned
    /\ DraftPinned

\* a content key and a branch name are made for an entry, the branch comes
\* back as a ref of the listing refs/heads/cms, and the names are taken from
\* the ref again (API.js 465, 435, 257)
CallKeyScheme ==
    /\ callResult = NotCalled
    /\ LET contentKey == generateContentKey(callArgs.collectionName, callArgs.slug)
           branchName == generateBranchName(contentKey)
           ref == REFS_HEADS \o branchName
       IN callResult' = [contentKey |-> contentKey, branchName |-> branchName,
                         keyFromRef |-> contentKeyFromRef(ref),
                         branchFromRef |-> branchNameFromRef(ref),
                         entry |-> CollectionAndSlug(contentKeyFromRef(ref)),
                         fork |-> UserAndRepo(contentKeyFromRef(ref))]
    /\ UNCHANGED <<callArgs, metaVars, wfVars, draftVars>>

NextKey == CallKeyScheme

SpecKey == InitKey /\ [][NextKey]_vars

\* C14: in open-authoring mode, for every collection and slug,
\* contentKeyFromRef of the ref of the branch is the content key,
\* branchNameFromRef of it is the branch name, and the split of the content
\* key on '/' that the code makes gives the collection and the slug back.
C14_KeyRoundTrip ==
    callResult # NotCalled =>
        /\ callResult.keyFromRef = callResult.contentKey
        /\ callResult.branchFromRef = callResult.branchName
        /\ callResult.entry.collectionName = callArgs.collectionName
        /\ callResult.entry.slug = callArgs.slug

-----------------------------------------------------------------------------
(* updateTree applied once to a base tree and a file tree, SpecTree *)

\* the object updateTree resolves to (API.js 1117-1124); sha is the sha the
\* call was given, null for a directory that is not in the base
UpdatedTree(sha, path, fileTree) ==
    [path |-> path, mode |-> "040000", type |-> "tree",
     sha |-> TreeSha(updateTree(getTree(sha), fileTree)), parentSha |-> sha]

BlobEntry(mode, b) == [mode |-> mode, type |-> "blob", sha |-> BlobSha(b)]

\* the listings of the directory d of the base trees
BaseDirs ==
    {("a" :> BlobEntry("100644", 1)),
     ("b" :> BlobEntry("100755", 2)),
     ("a" :> BlobEntry("100644", 1)) @@ ("b" :> BlobEntry("100755", 2))}

\* base trees: the files a and b, the directory d, each there or not
BaseTrees ==
    {[p \in names |->
        IF p = "a" THEN BlobEntry("100755", 1)
        ELSE IF p = "b" THEN BlobEntry("100644", 2)
        ELSE [mode |-> "040000", type |-> "tree", sha |-> TreeSha(dir)]] :
     names \in SUBSET {"a", "b", "d"}, dir \in BaseDirs}

BaseShas == {NullSha} \cup {TreeSha(t) : t \in BaseTrees}

\* what a file tree says of one file: nothing, a new blob, or its removal
Leaves == {"none", "put", "remove"}

Leaf(kind) == [file |-> TRUE, sha |-> BlobSha(3), remove |-> kind = "remove"]

\* file trees as composeFileTree makes them, over the paths a and d/a
FileTreeOf(top, nested) ==
    [p \in {q \in {"a", "d"} : IF q = "a" THEN top # "none" ELSE nested # "none"} |->
        IF p = "a" THEN Leaf(top) ELSE [file |-> FALSE, dir |-> ("a" :> Leaf(nested))]]

FileTrees == {FileTreeOf(top, nested) : top \in Leaves, nested \in Leaves}

InitTree ==
    /\ callArgs \in [sha : BaseShas, fileTree : FileTrees]
    /\ callResult = NotCalled
    /\ WorkflowPinned
    /\ MetaPinned
    /\ DraftPinned

\* this.updateTree(sha, '/', fileTree) is called (API.js 1080)
CallUpdateTree ==
    /\ callResult = NotCalled
    /\ callResult' = UpdatedTree(callArgs.sha, "/", callArgs.fileTree)
    /\ UNCHANGED <<callArgs, metaVars, wfVars, draftVars>>

NextTree == CallUpdateTree

SpecTree == InitTree /\ [][NextTree]_vars

\* a directory of the result has, for every leaf of the file tree that
\* removes a path of the base, no entry at that path, and every entry of the
\* base that the file tree does not name as it was
RECURSIVE RemovedIn(_, _, _)
RemovedIn(base, fileTree, result) ==
    /\ \A p \in DOMAIN fileTree :
        /\ (fileTree[p].file /\ fileTree[p].remove /\ p \in DOMAIN base)
                => p \notin DOMAIN result
        /\ (~fileTree[p].file /\ p \in DOMAIN base)
                => /\ p \in DOMAIN result
                   /\ result[p].type = "tree"
                   /\ RemovedIn(getTree(base[p].sha), fileTree[p].dir, getTree(result[p].sha))
    /\ \A q \in DOMAIN base \ DOMAIN fileTree :
        q \in DOMAIN result /\ result[q] = base[q]

\* C21: updateTree applied with a {remove: true} leaf for a path that the
\* base tree holds yields a tree without that path, in which every sibling
\* entry (path, mode, type, sha) of the base tree is as it was.
C21_RemoveDropsPath ==
    callResult # NotCalled =>
        RemovedIn(getTree(callArgs.sha), callArgs.fileTree, getTree(callResult.sha))

\* a file tree that removes d/a and nothing else was applied to a base that
\* holds d/a, d/b and a
C21_Witness ==
    /\ callResult # NotCalled
    /\ callArgs.fileTree = FileTreeOf("none", "remove")
    /\ callArgs.sha # NullSha
    /\ DOMAIN getTree(callArgs.sha) = {"a", "d"}
    /\ DOMAIN getTree(getTree(callArgs.sha)["d"].sha) = {"a", "b"}
    /\ DOMAIN getTree(getTree(callResult.sha)["d"].sha) = {"b"}

\* C22: updateTree applied with an empty fileTree returns a tree with the
\* entries of the input tree, none added, removed or changed, and with
\* parentSha the base sha it was given.
C22_EmptyFileTree ==
    (callResult # NotCalled /\ callArgs.fileTree = << >>) =>
        /\ getTree(callResult.sha) = getTree(callArgs.sha)
        /\ callResult.parentSha = callArgs.sha

\* the empty file tree was applied to a base tree with entries
C22_Witness ==
    /\ callResult # NotCalled
    /\ callArgs.fileTree = << >>
    /\ callArgs.sha # NullSha
    /\ DOMAIN getTree(callArgs.sha) = {"a", "b", "d"}
    /\ callResult.parentSha = callArgs.sha

\* C31: updateTree applied with a {remove: true} leaf for a path that the
\* base tree does not hold yields a tree without that path: the tree it
\* yields for the file tree without that leaf.
C31_RemoveOfMissingPath ==
    callResult # NotCalled =>
        LET base == getTree(callArgs.sha)
            result == getTree(callResult.sha)
        IN \A top \in Leaves, nested \in Leaves :
            callArgs.fileTree = FileTreeOf(top, nested) =>
                /\ (top = "remove" /\ ShaAt(base, <<"a">>) = NullSha)
                        => /\ ShaAt(result, <<"a">>) = NullSha
                           /\ result = updateTree(base, FileTreeOf("none", nested))
                /\ (nested = "remove" /\ ShaAt(base, <<"d", "a">>) = NullSha)
                        => /\ ShaAt(result, <<"d", "a">>) = NullSha
                           /\ result = updateTree(base, FileTreeOf(top, "none"))

(***************************************************************************)
(* The entry draft of the editor: entryDraftReducer under the actions the  *)
(* store dispatches.  An Immutable Map is a function on strings, Map() and *)
(* List() are << >>, a List is a sequence; a key that is absent is outside *)
(* the DOMAIN.                                                             *)
(***************************************************************************)

Has(m, k) == k \in DOMAIN m

set(m, k, v) == [x \in DOMAIN m \cup {k} |-> IF x = k THEN v ELSE m[x]]

delete(m, k) == [x \in DOMAIN m \ {k} |-> m[x]]

\* setIn makes the maps of the path that are not there
RECURSIVE setIn(_, _, _)
setIn(m, path, v) ==
    IF Len(path) = 1
    THEN set(m, path[1], v)
    ELSE set(m, path[1],
             setIn(IF Has(m, path[1]) THEN m[path[1]] ELSE << >>, Tail(path), v))

\* deleteIn leaves a map alone that does not hold the path
RECURSIVE deleteIn(_, _)
deleteIn(m, path) ==
    IF ~Has(m, path[1])
    THEN m
    ELSE IF Len(path) = 1
         THEN delete(m, path[1])
         ELSE set(m, path[1], deleteIn(m[path[1]], Tail(path)))

RECURSIVE getIn(_, _)
getIn(m, path) ==
    IF ~Has(m, path[1])
    THEN Undefined
    ELSE IF Len(path) = 1
         THEN m[path[1]]
         ELSE getIn(m[path[1]], Tail(path))

\* mergeDeepIn of a metadata map {field: {key: value}} into the map at key k
mergeDeepIn(m, k, other) ==
    LET old == IF Has(m, k) THEN m[k] ELSE << >>
        merge(a, b) == [x \in DOMAIN a \cup DOMAIN b |->
                            IF Has(b, x) THEN b[x] ELSE a[x]]
    IN set(m, k, [f \in DOMAIN old \cup DOMAIN other |->
                    IF ~Has(other, f) THEN old[f]
                    ELSE IF ~Has(old, f) THEN other[f]
                    ELSE merge(old[f], other[f])])

\* !v of a slug or a path
Falsy(v) == v \in {Undefined, ""}

\* list.filterNot(file => file.id === id)
RECURSIVE filterNotId(_, _)
filterNotId(list, id) ==
    IF list = << >>
    THEN << >>
    ELSE IF Head(list).id = id
         THEN filterNotId(Tail(list), id)
         ELSE <<Head(list)>> \o filterNotId(Tail(list), id)

initialState ==
    [entry |-> << >>, mediaFiles |-> << >>, fieldsMetaData |-> << >>,
     fieldsErrors |-> << >>, hasChanged |-> FALSE]

\* case DRAFT_CREATE_FROM_ENTRY; payload.mediaFiles || List() and
\* payload.metadata || Map() with Undefined for a field the payload lacks
draftCreateFromEntry(state, payload) ==
    LET s1 == set(state, "entry", payload.entry)
        s2 == setIn(s1, <<"entry", "newRecord">>, FALSE)
        s3 == set(s2, "mediaFiles", IF Has(payload, "mediaFiles")
                                    THEN payload.mediaFiles ELSE << >>)
        s4 == set(s3, "fieldsMetaData", IF Has(payload, "metadata")
                                        THEN payload.metadata ELSE << >>)
        s5 == set(s4, "fieldsErrors", << >>)
    IN set(s5, "hasChanged", FALSE)

\* case DRAFT_CREATE_EMPTY
draftCreateEmpty(state, payload) ==
    LET s1 == set(state, "entry", payload)
        s2 == setIn(s1, <<"entry", "newRecord">>, TRUE)
        s3 == set(s2, "mediaFiles", << >>)
        s4 == set(s3, "fieldsMetaData", << >>)
        s5 == set(s4, "fieldsErrors", << >>)
    IN set(s5, "hasChanged", FALSE)

\* case DRAFT_CREATE_FROM_LOCAL_BACKUP; without a local backup the reducer
\* throws on backupDraftEntry.get and the store keeps its state
draftCreateFromLocalBackup(state) ==
    IF ~Has(state, "localBackup")
    THEN state
    ELSE LET backupDraftEntry == state.localBackup
             backupEntry == backupDraftEntry.entry
             s1 == delete(state, "localBackup")
             s2 == set(s1, "entry", backupEntry)
             s3 == setIn(s2, <<"entry", "newRecord">>,
                         Falsy(getIn(backupEntry, <<"path">>)))
             s4 == set(s3, "mediaFiles", backupDraftEntry.mediaFiles)
             s5 == set(s4, "fieldsMetaData", << >>)
             s6 == set(s5, "fieldsErrors", << >>)
         IN set(s6, "hasChanged", TRUE)

\* case DRAFT_CHANGE_FIELD
draftChangeField(state, payload) ==
    LET s1 == setIn(state, <<"entry", "data", payload.field>>, payload.value)
        s2 == mergeDeepIn(s1, "fieldsMetaData", payload.metadata)
    IN set(s2, "hasChanged", TRUE)

\* case DRAFT_VALIDATION_ERRORS
draftValidationErrors(state, payload) ==
    IF Len(payload.errors) = 0
    THEN deleteIn(state, <<"fieldsErrors", payload.uniquefieldId>>)
    ELSE setIn(state, <<"fieldsErrors", payload.uniquefieldId>>, payload.errors)

\* case ENTRY_PERSIST_REQUEST, UNPUBLISHED_ENTRY_PERSIST_REQUEST
persistRequest(state) == setIn(state, <<"entry", "isPersisting">>, TRUE)

persistFailure_KeepsFlag(state) == state

\* case ENTRY_PERSIST_FAILURE, UNPUBLISHED_ENTRY_PERSIST_FAILURE
persistFailure(state) == deleteIn(state, <<"entry", "isPersisting">>)

\* case ENTRY_PERSIST_SUCCESS, UNPUBLISHED_ENTRY_PERSIST_SUCCESS
persistSuccess(state, payload) ==
    LET s1 == deleteIn(state, <<"entry", "isPersisting">>)
        s2 == set(s1, "hasChanged", FALSE)
    IN IF Falsy(getIn(s2, <<"entry", "slug">>))
       THEN setIn(s2, <<"entry", "slug">>, payload.slug)
       ELSE s2

\* case ENTRY_DELETE_SUCCESS
deleteSuccess(state) ==
    set(deleteIn(state, <<"entry", "isPersisting">>), "hasChanged", FALSE)

\* case ADD_DRAFT_ENTRY_MEDIA_FILE: the filter reads action.id, which the
\* action does not carry: undefined is the id of no file, so no file of
\* the list is dropped
addDraftEntryMediaFile(state, action) ==
    IF Has(state, "mediaFiles")
    THEN set(state, "mediaFiles",
             Append(IF Has(action, "id")
                    THEN filterNotId(state.mediaFiles, action.id)
                    ELSE state.mediaFiles,
                    action.payload))
    ELSE state

\* case ADD_DRAFT_ENTRY_MEDIA_FILES
addDraftEntryMediaFiles(state, payload) ==
    LET newState == IF ~Has(state, "mediaFiles")
                    THEN set(state, "mediaFiles", << >>)
                    ELSE state
    IN set(newState, "mediaFiles", newState.mediaFiles \o payload)

\* case REMOVE_DRAFT_ENTRY_MEDIA_FILE
removeDraftEntryMediaFile(state, payload) ==
    IF Has(state, "mediaFiles")
    THEN set(state, "mediaFiles", filterNotId(state.mediaFiles, payload.id))
    ELSE state

PersistRequests == {"ENTRY_PERSIST_REQUEST", "UNPUBLISHED_ENTRY_PERSIST_REQUEST"}

PersistFailures == {"ENTRY_PERSIST_FAILURE", "UNPUBLISHED_ENTRY_PERSIST_FAILURE"}

PersistSuccesses == {"ENTRY_PERSIST_SUCCESS", "UNPUBLISHED_ENTRY_PERSIST_SUCCESS"}

entryDraftReducer(state, action) ==
    CASE action.type = "DRAFT_CREATE_FROM_ENTRY" ->
            draftCreateFromEntry(state, action.payload)
      [] action.type = "DRAFT_CREATE_EMPTY" ->
            draftCreateEmpty(state, action.payload)
      [] action.type = "DRAFT_CREATE_FROM_LOCAL_BACKUP" ->
            draftCreateFromLocalBackup(state)
      [] action.type = "DRAFT_DISCARD" -> initialState
      [] action.type = "DRAFT_LOCAL_BACKUP_RETRIEVED" ->
            set(state, "localBackup", action.payload)
      [] action.type = "DRAFT_CHANGE_FIELD" ->
            draftChangeField(state, action.payload)
      [] action.type = "DRAFT_VALIDATION_ERRORS" ->
            draftValidationErrors(state, action.payload)
      [] action.type = "DRAFT_CLEAR_ERRORS" -> set(state, "fieldsErrors", << >>)
      [] action.type \in PersistRequests -> persistRequest(state)
      [] action.type \in PersistFailures -> persistFailure(state)
      [] action.type \in PersistSuccesses -> persistSuccess(state, action.payload)
      [] action.type = "ENTRY_DELETE_SUCCESS" -> deleteSuccess(state)
      [] action.type = "ADD_DRAFT_ENTRY_MEDIA_FILE" ->
            addDraftEntryMediaFile(state, action)
      [] action.type = "ADD_DRAFT_ENTRY_MEDIA_FILES" ->
            addDraftEntryMediaFiles(state, action.payload)
      [] action.type = "REMOVE_DRAFT_ENTRY_MEDIA_FILE" ->
            removeDraftEntryMediaFile(state, action.payload)
      [] OTHER -> state

\* the entries the editor opens: a stored entry, and the empty entry of a
\* new one, whose slug and path are ''
StoredEntry == [slug |-> "post", path |-> "posts/post.md", data |-> [title |-> 1]]

EmptyEntry == [slug |-> "", path |-> "", data |-> << >>]

DraftEntries == {StoredEntry, EmptyEntry}

\* the media file of the draft
MediaFile == [id |-> "image.png"]

(* The store dispatches an action: the reducer yields the next state.  The *)
(* number of unanswered persist requests and the length of the media list  *)
(* are bounded.                                                            *)
Dispatch(action) ==
    LET next == entryDraftReducer(entryDraft, action)
    IN /\ action.type \in PersistRequests => inFlight < MaxOps
       /\ Has(next, "mediaFiles") => Len(next.mediaFiles) <= MaxList
       /\ entryDraft' = next
       /\ lastAction' = IF action.type \in PersistRequests \cup PersistFailures
                                            \cup PersistSuccesses
                                            \cup {"ENTRY_DELETE_SUCCESS"}
                        THEN action.type
                        ELSE "OTHER"
       /\ inFlight' = IF action.type \in PersistRequests
                      THEN inFlight + 1
                      ELSE IF action.type \in PersistFailures \cup PersistSuccesses
                                /\ inFlight > 0
                           THEN inFlight - 1
                           ELSE inFlight
       /\ UNCHANGED <<metaVars, wfVars, fnVars>>

\* the store before any action: the reducer's default state, Map()
InitDraft ==
    /\ DraftPinned
    /\ MetaPinned
    /\ WorkflowPinned
    /\ callArgs = << >>
    /\ callResult = NotCalled

NextDraft ==
    \/ \E e \in DraftEntries :
            Dispatch([type |-> "DRAFT_CREATE_FROM_ENTRY", payload |-> [entry |-> e]])
    \/ Dispatch([type |-> "DRAFT_CREATE_FROM_ENTRY",
                 payload |-> [entry |-> StoredEntry, mediaFiles |-> <<MediaFile>>,
                              metadata |-> [title |-> [loaded |-> TRUE]]]])
    \/ Dispatch([type |-> "DRAFT_CREATE_EMPTY", payload |-> EmptyEntry])
    \/ Dispatch([type |-> "DRAFT_CREATE_FROM_LOCAL_BACKUP"])
    \/ Dispatch([type |-> "DRAFT_DISCARD"])
    \/ Dispatch([type |-> "DRAFT_LOCAL_BACKUP_RETRIEVED",
                 payload |-> [entry |-> EmptyEntry, mediaFiles |-> << >>]])
    \/ \E v \in 1..MaxData :
            Dispatch([type |-> "DRAFT_CHANGE_FIELD",
                      payload |-> [field |-> "title", value |-> v,
                                   metadata |-> [title |-> [loaded |-> TRUE]]]])
    \/ \E errors \in {<< >>, <<"required">>} :
            Dispatch([type |-> "DRAFT_VALIDATION_ERRORS",
                      payload |-> [uniquefieldId |-> "title-id", errors |-> errors]])
    \/ Dispatch([type |-> "DRAFT_CLEAR_ERRORS"])
    \/ \E t \in PersistRequests \cup PersistFailures \cup {"ENTRY_DELETE_SUCCESS"} :
            Dispatch([type |-> t])
    \/ \E t \in PersistSuccesses :
            Dispatch([type |-> t, payload |-> [slug |-> "new-post"]])
    \/ Dispatch([type |-> "ADD_DRAFT_ENTRY_MEDIA_FILE", payload |-> MediaFile])
    \/ Dispatch([type |-> "ADD_DRAFT_ENTRY_MEDIA_FILES", payload |-> <<MediaFile>>])
    \/ Dispatch([type |-> "REMOVE_DRAFT_ENTRY_MEDIA_FILE", payload |-> MediaFile])

SpecDraft == InitDraft /\ [][NextDraft]_vars

\* C32: entry.isPersisting is true only while a persist is in flight: it
\* is true after a persist REQUEST (published or unpublished), absent after
\* every persist SUCCESS or FAILURE and after ENTRY_DELETE_SUCCESS, and
\* where it is present it is true and a request is unanswered; hasChanged
\* is false after every persist SUCCESS.
C32_PersistingOnlyInFlight ==
    LET present == Has(entryDraft, "entry") /\ Has(entryDraft.entry, "isPersisting")
    IN /\ lastAction \in PersistRequests
               => present /\ entryDraft.entry.isPersisting = TRUE
       /\ lastAction \in PersistFailures \cup PersistSuccesses
                         \cup {"ENTRY_DELETE_SUCCESS"}
               => ~present
       /\ lastAction \in PersistSuccesses => entryDraft.hasChanged = FALSE
       /\ present => entryDraft.entry.isPersisting = TRUE /\ inFlight > 0

\* a changed new entry was persisted: the request was answered by a
\* success, which cleared the flag and hasChanged and gave the slug
C32_Witness ==
    /\ lastAction \in PersistSuccesses
    /\ inFlight = 0
    /\ Has(entryDraft, "entry")
    /\ ~Has(entryDraft.entry, "isPersisting")
    /\ Has(entryDraft.entry, "newRecord")
    /\ entryDraft.entry.newRecord = TRUE
    /\ getIn(entryDraft, <<"entry", "slug">>) = "new-post"
    /\ Has(entryDraft.entry, "data")
    /\ Has(entryDraft.entry.data, "title")
    /\ entryDraft.hasChanged = FALSE

\* a persist request is under way on a changed entry
C32_WitnessInFlight ==
    /\ lastAction \in PersistRequests
    /\ inFlight = 1
    /\ Has(entryDraft, "entry")
    /\ Has(entryDraft.entry, "isPersisting")
    /\ entryDraft.entry.isPersisting = TRUE
    /\ Has(entryDraft, "hasChanged")
    /\ entryDraft.hasChanged = TRUE

====
